---- MODULE Spec2Model ----
(***************************************************************************)
(* Keyword scoring and monetization pipeline of blog_keyword_analyzer.     *)
(*                                                                         *)
(* Strings are sequences of characters.  A Hangul syllable is written as   *)
(* its romanisation ("ga", "gyeok"), an ASCII character as itself; two     *)
(* characters are equal exactly when the source characters are equal.      *)
(*                                                                         *)
(* Python values that may be None or of a wrong type are tagged records    *)
(* [t |-> "int" | "None" | "str", v |-> n].                                *)
(*                                                                         *)
(* Floating point quantities are exact decimals held as scaled integers;   *)
(* the scale is part of each definition's name or comment.                 *)
(***************************************************************************)
EXTENDS Integers, Sequences, FiniteSets, TLC

VARIABLES
    \* monetize_keywords(keywords, metrics, params, min_monthly, exclude_tokens)
    keywords, metrics, params, min_monthly, exclude_tokens,
    rows, mon_i, mon_pc,
    \* classify_intent(keyword)
    ci_keyword, ci_label, ci_pc,
    \* score_keywords(keywords, hit_counts),
    \* score_keywords_with_metrics(keywords, hit_counts, metrics) and
    \* score_keywords_by_platform(keywords, hit_counts, metrics, platform)
    sc_fn, sc_keywords, hit_counts, sc_metrics, results, sc_i, sc_pc,
    sc_entry, sc_none, sc_platform,
    \* unique_ordered(items), applied once and then to its own result
    uo_items, uo_out, uo_prev, uo_pc,
    \* expand_with_suffixes(seeds, suffixes) and expand_with_profile(seeds, profile)
    ex_fn, ex_seeds, ex_suffixes, ex_profile, ex_out, ex_i, ex_pc,
    \* enrich_keywords(keywords, enrichers, limit), called directly or by a dashboard
    en_caller, en_keywords, en_clients, en_limit, en_resp, en_out, en_calls, en_i, en_pc,
    \* bulk_suggest(seeds) of a suggestion provider
    sg_provider, sg_seeds, sg_resp, sg_out, sg_i, sg_pc,
    \* compute_trends(prev, curr, hot_terms)
    tr_prev, tr_curr, tr_terms, tr_new, tr_dropped, tr_hot, tr_pc,
    \* collect_suggestions_cached(seeds, provider_names, depth, hl, nonce)
    cs_seeds, cs_names, cs_depth, cs_service, cs_queries, cs_all, cs_hits, cs_log, cs_round, cs_p, cs_out, cs_pc,
    \* HttpClient.get_json(url, params)
    hj_max_retries, hj_outcomes, hj_attempts, hj_last, hj_result, hj_pc,
    \* the platform dashboard's script runs in one browser session
    db_has_nonce, db_nonce, db_seeds, db_log, db_clicks, db_pc

monVars == <<keywords, metrics, params, min_monthly, exclude_tokens, rows, mon_i, mon_pc>>
ciVars == <<ci_keyword, ci_label, ci_pc>>
scVars == <<sc_fn, sc_keywords, hit_counts, sc_metrics, results, sc_i, sc_pc,
           sc_entry, sc_none, sc_platform>>
uoVars == <<uo_items, uo_out, uo_prev, uo_pc>>
exVars == <<ex_fn, ex_seeds, ex_suffixes, ex_profile, ex_out, ex_i, ex_pc>>
enVars == <<en_caller, en_keywords, en_clients, en_limit, en_resp, en_out, en_calls, en_i, en_pc>>
sgVars == <<sg_provider, sg_seeds, sg_resp, sg_out, sg_i, sg_pc>>
trVars == <<tr_prev, tr_curr, tr_terms, tr_new, tr_dropped, tr_hot, tr_pc>>
csVars == <<cs_seeds, cs_names, cs_depth, cs_service, cs_queries, cs_all, cs_hits, cs_log, cs_round, cs_p, cs_out, cs_pc>>
hjVars == <<hj_max_retries, hj_outcomes, hj_attempts, hj_last, hj_result, hj_pc>>
dbVars == <<db_has_nonce, db_nonce, db_seeds, db_log, db_clicks, db_pc>>
vars == <<monVars, ciVars, scVars, uoVars, exVars, enVars, sgVars, trVars, csVars, hjVars, dbVars>>
\* The variables each component leaves alone.
monOthers == <<ciVars, scVars, uoVars, exVars, enVars, sgVars, trVars, csVars, hjVars, dbVars>>
ciOthers == <<monVars, scVars, uoVars, exVars, enVars, sgVars, trVars, csVars, hjVars, dbVars>>
scOthers == <<monVars, ciVars, uoVars, exVars, enVars, sgVars, trVars, csVars, hjVars, dbVars>>
uoOthers == <<monVars, ciVars, scVars, exVars, enVars, sgVars, trVars, csVars, hjVars, dbVars>>
exOthers == <<monVars, ciVars, scVars, uoVars, enVars, sgVars, trVars, csVars, hjVars, dbVars>>
enOthers == <<monVars, ciVars, scVars, uoVars, exVars, sgVars, trVars, csVars, hjVars, dbVars>>
sgOthers == <<monVars, ciVars, scVars, uoVars, exVars, enVars, trVars, csVars, hjVars, dbVars>>
trOthers == <<monVars, ciVars, scVars, uoVars, exVars, enVars, sgVars, csVars, hjVars, dbVars>>
csOthers == <<monVars, ciVars, scVars, uoVars, exVars, enVars, sgVars, trVars, hjVars, dbVars>>
hjOthers == <<monVars, ciVars, scVars, uoVars, exVars, enVars, sgVars, trVars, csVars, dbVars>>
dbOthers == <<monVars, ciVars, scVars, uoVars, exVars, enVars, sgVars, trVars, csVars, hjVars>>

(***************************************************************************)
(* Bounds of the model.                                                    *)
(***************************************************************************)
MaxKeywords == 2

(***************************************************************************)
(* Generic helpers.                                                        *)
(***************************************************************************)
Max(a, b) == IF a >= b THEN a ELSE b
Min(a, b) == IF a <= b THEN a ELSE b

\* Python int(x) of a float x = n/d (d > 0): truncation toward zero.
TruncDiv(n, d) == IF n >= 0 THEN n \div d ELSE -((-n) \div d)

\* Python `t in s` for strings: t occurs in s as a contiguous substring.
Contains(s, t) ==
    \E i \in 0..(Len(s) - Len(t)) : SubSeq(s, i + 1, i + Len(t)) = t

\* Sequences over S of length 0..n.
SeqUpTo(S, n) == UNION {[1..k -> S] : k \in 0..n}

\* The elements of a sequence.
Range(s) == {s[i] : i \in 1..Len(s)}

(***************************************************************************)
(* Characters.                                                             *)
(***************************************************************************)
\* Characters str.strip() removes and \s matches ("VT" is the vertical tab).
Whitespace == {" ", "\t", "\n", "\r", "VT", "\f"}

\* str.lower() on one character: ASCII upper case letters map to lower
\* case, every other character of the model (Hangul, digits, blanks) is
\* unchanged.
LowerChar(c) ==
    CASE c = "T" -> "t"
      [] c = "O" -> "o"
      [] c = "P" -> "p"
      [] c = "V" -> "v"
      [] c = "S" -> "s"
      [] c = "R" -> "r"
      [] c = "A" -> "a"
      [] c = "E" -> "e"
      [] c = "L" -> "l"
      [] c = "F" -> "f"
      [] c = "D" -> "d"
      [] OTHER -> c

Lower(s) == [i \in 1..Len(s) |-> LowerChar(s[i])]

RECURSIVE LStrip(_)
LStrip(s) ==
    IF s # <<>> /\ Head(s) \in Whitespace THEN LStrip(Tail(s)) ELSE s

RECURSIVE RStrip(_)
RStrip(s) ==
    IF s # <<>> /\ s[Len(s)] \in Whitespace
    THEN RStrip(SubSeq(s, 1, Len(s) - 1))
    ELSE s

\* str.strip()
Strip(s) == RStrip(LStrip(s))

(***************************************************************************)
(* Python values.                                                          *)
(***************************************************************************)
PyNone == [t |-> "None", v |-> 0]
PyInt(n) == [t |-> "int", v |-> n]
\* A non-numeric string such as "abc".
PyStr == [t |-> "str", v |-> 0]

\* enrichers.EnrichedMetrics
EnrichedMetrics(pc, mo, blog, google, cpc) ==
    [t |-> "EnrichedMetrics",
     naver_blog_total |-> blog,
     google_total |-> google,
     naver_monthly_pc |-> pc,
     naver_monthly_mobile |-> mo,
     naver_cpc |-> cpc]

\* What dict.get(kw) yields for a missing key or a key stored with None.
NoMetrics ==
    [t |-> "None",
     naver_blog_total |-> PyNone,
     google_total |-> PyNone,
     naver_monthly_pc |-> PyNone,
     naver_monthly_mobile |-> PyNone,
     naver_cpc |-> PyNone]

\* metrics.get(kw)
MetricsGet(mt, kw) == IF kw \in DOMAIN mt THEN mt[kw] ELSE NoMetrics

\* Variant: every value counts as a record.
Truthy_Always(m) == TRUE

\* Python truthiness of a metrics value: None is falsy, a dataclass
\* instance is truthy.
Truthy(m) == m.t # "None"

(***************************************************************************)
(* monetization.py                                                         *)
(***************************************************************************)
\* MonetizationParams; pv_per_visit and aff_cvr_pct are held times 10.
MonetizationParams(cap, pv10, e, cvr10, comm) ==
    [capture_pct |-> cap, pv_per_visit_x10 |-> pv10, ecpm |-> e,
     aff_cvr_pct_x10 |-> cvr10, aff_commission |-> comm]

DefaultParams == MonetizationParams(15, 13, 2500, 15, 1500)

\* INTENT_RULES["transactional"]["tokens"]
TransactionalTokens ==
    << <<"gu", "mae">>, <<"ga", "gyeok">>, <<"hal", "in">>,
       <<"choe", "jeo", "ga">>, <<"ku", "pon">>, <<"ye", "yak">>,
       <<"sin", "cheong">>, <<"gyeon", "jeok">>, <<"bi", "yong">>,
       <<"su", "gang">> >>

\* INTENT_RULES["commercial"]["tokens"]
CommercialTokens ==
    << <<"chu", "cheon">>, <<"bi", "gyo">>, <<"hu", "gi">>,
       <<"ri", "byu">>, <<"jang", "dan", "jeom">>,
       <<"be", "seu", "teu">>, <<"t", "o", "p">>, <<"v", "s">> >>

\* INTENT_RULES["informational"]["tokens"]
InformationalTokens ==
    << <<"bang", "beop">>, <<"sa", "yong", "beop">>,
       <<"ga", "i", "deu">>, <<"ju", "ui">>, <<"kkul", "tip">>,
       <<"ha", "neun", " ", "beop">>, <<"eo", "tteoh", "ge">>,
       <<"wae">>, <<"mu", "eot">> >>

\* Variant: the lists are walked in the order they are scanned for in a
\* keyword read left to right, informational first.
INTENT_RULES_InformationalFirst ==
    <<[label |-> "informational", tokens |-> InformationalTokens],
      [label |-> "commercial", tokens |-> CommercialTokens],
      [label |-> "transactional", tokens |-> TransactionalTokens]>>

\* INTENT_RULES, in the order classify_intent walks it:
\* for label in ("transactional", "commercial", "informational").
INTENT_RULES ==
    <<[label |-> "transactional", tokens |-> TransactionalTokens],
      [label |-> "commercial", tokens |-> CommercialTokens],
      [label |-> "informational", tokens |-> InformationalTokens]>>

\* One token of classify_intent's inner loop: the case-sensitive test, then
\* the case-insensitive one.
TokenHit(keyword, t) ==
    Contains(keyword, t) \/ Contains(Lower(keyword), Lower(t))

\* classify_intent's loops from label index li, token index ti on.
RECURSIVE ClassifyFrom(_, _, _)
ClassifyFrom(keyword, li, ti) ==
    IF li > Len(INTENT_RULES) THEN "informational"
    ELSE IF ti > Len(INTENT_RULES[li].tokens) THEN ClassifyFrom(keyword, li + 1, 1)
    ELSE IF TokenHit(keyword, INTENT_RULES[li].tokens[ti]) THEN INTENT_RULES[li].label
    ELSE ClassifyFrom(keyword, li, ti + 1)

classify_intent(keyword) == ClassifyFrom(keyword, 1, 1)

\* int(x or 0) raises for a non-numeric string.
IntRaises(x) == x.t = "str"
\* int(x or 0) otherwise: None and 0 give 0.
IntOrZero(x) == IF x.t = "int" THEN x.v ELSE 0

\* _monthly_from_metrics: any exception gives 0 for the whole sum.
monthly_from_metrics(m) ==
    IF IntRaises(m.naver_monthly_pc) \/ IntRaises(m.naver_monthly_mobile)
    THEN 0
    ELSE Max(IntOrZero(m.naver_monthly_pc) + IntOrZero(m.naver_monthly_mobile), 0)

\* Variant: the threshold rejects the boundary value too.
BelowMin_Inclusive(monthly, minimum) == monthly <= minimum

\* monthly < int(min_monthly)
BelowMin(monthly, minimum) == monthly < minimum

\* ex_set: the stripped tokens, empty and blank ones dropped.
ExSet(tokens) ==
    {Strip(tokens[i]) : i \in {j \in 1..Len(tokens) :
                                 tokens[j] # <<>> /\ Strip(tokens[j]) # <<>>}}

\* Variant: the tokens are compared as given, without strip().
Excluded_Unstripped(kw, tokens) ==
    \E i \in 1..Len(tokens) : tokens[i] # <<>> /\ Contains(kw, tokens[i])

\* any(tok in kw for tok in ex_set)
Excluded(kw, tokens) == \E tok \in ExSet(tokens) : Contains(kw, tok)

\* Variant: the share is bounded below only.
Capture_NoUpperBound(p) == Max(0, p.capture_pct)

\* max(0.0, min(100.0, capture_pct)), in percent.
Capture(p) == Max(0, Min(100, p.capture_pct))
\* visits * 100
Visits100(monthly, p) == monthly * Capture(p)
\* pv * 1000
Pageviews1000(monthly, p) == Visits100(monthly, p) * p.pv_per_visit_x10
\* display_rev * 10^6
DisplayRev6(monthly, p) == Pageviews1000(monthly, p) * p.ecpm
\* aff_orders * 10^5
AffOrders5(monthly, p) == Visits100(monthly, p) * Max(0, p.aff_cvr_pct_x10)
\* Variant: the orders are truncated to an integer before the commission.
AffRev5_TruncOrders(monthly, p) ==
    TruncDiv(AffOrders5(monthly, p), 100000) * p.aff_commission * 100000

\* aff_rev * 10^5
AffRev5(monthly, p) == AffOrders5(monthly, p) * p.aff_commission

\* int(display_rev + aff_rev): the sum is formed before the truncation.
TotalRev(monthly, p) ==
    LET d == DisplayRev6(monthly, p)
        a == AffRev5(monthly, p)
        frac == (d % 1000000) + 10 * (a % 100000)
        whole == (d \div 1000000) + (a \div 100000) + (frac \div 1000000)
    IN  IF whole < 0 /\ frac % 1000000 > 0 THEN whole + 1 ELSE whole

\* float(cpc) if isinstance(cpc, (int, float)) else None
CpcOut(m) == IF m.naver_cpc.t = "int" THEN m.naver_cpc ELSE PyNone

\* The dict appended for one keyword that passed the three filters.
Row(kw, m, p) ==
    LET monthly == monthly_from_metrics(m) IN
    [keyword |-> kw,
     intent |-> classify_intent(kw),
     monthly_search |-> monthly,
     capture_pct |-> p.capture_pct,
     pv_per_visit_x10 |-> p.pv_per_visit_x10,
     eCPM |-> p.ecpm,
     aff_cvr_pct_x10 |-> p.aff_cvr_pct_x10,
     aff_commission |-> p.aff_commission,
     est_visits |-> TruncDiv(Visits100(monthly, p), 100),
     est_pageviews |-> TruncDiv(Pageviews1000(monthly, p), 1000),
     est_display_rev |-> TruncDiv(DisplayRev6(monthly, p), 1000000),
     est_aff_rev |-> TruncDiv(AffRev5(monthly, p), 100000),
     est_total_rev |-> TotalRev(monthly, p),
     naver_cpc |-> CpcOut(m)]

\* The sort key (est_total_rev, monthly_search): a's key is below b's.
RowKeyLess(a, b) ==
    \/ a.est_total_rev < b.est_total_rev
    \/ a.est_total_rev = b.est_total_rev /\ a.monthly_search < b.monthly_search

\* Insert r into the descending list s behind every element whose key is
\* not below r's (list.sort is stable, also with reverse=True).
RECURSIVE InsertRow(_, _)
InsertRow(s, r) ==
    IF s = <<>> THEN <<r>>
    ELSE IF RowKeyLess(Head(s), r) THEN <<r>> \o s
    ELSE <<Head(s)>> \o InsertRow(Tail(s), r)

\* Variant: the rows are returned in the order they were appended.
SortRows_Unsorted(s) == s

\* rows.sort(key=..., reverse=True)
RECURSIVE SortRows(_)
SortRows(s) ==
    IF s = <<>> THEN <<>>
    ELSE InsertRow(SortRows(SubSeq(s, 1, Len(s) - 1)), s[Len(s)])

(***************************************************************************)
(* text_utils.py                                                           *)
(***************************************************************************)
\* The characters of _CTRL_RE.
CtrlChars == {"\t", "\r", "\n", "VT", "\f"}

\* re.sub of a pattern [S]+ by " ": every maximal run of characters of S
\* becomes one space.
RECURSIVE CollapseRuns(_, _)
CollapseRuns(s, S) ==
    IF s = <<>> THEN <<>>
    ELSE IF Head(s) \notin S THEN <<Head(s)>> \o CollapseRuns(Tail(s), S)
    ELSE IF Len(s) > 1 /\ s[2] \in S THEN CollapseRuns(Tail(s), S)
    ELSE <<" ">> \o CollapseRuns(Tail(s), S)

\* normalize_query
normalize_query(q) == CollapseRuns(CollapseRuns(Strip(q), CtrlChars), Whitespace)

\* str.split(" "): the pieces between single spaces, empty ones included.
RECURSIVE SplitSpace(_)
SplitSpace(s) ==
    IF \A i \in 1..Len(s) : s[i] # " " THEN <<s>>
    ELSE LET k == CHOOSE i \in 1..Len(s) :
                     s[i] = " " /\ \A j \in 1..(i - 1) : s[j] # " "
         IN  <<SubSeq(s, 1, k - 1)>> \o SplitSpace(SubSeq(s, k + 1, Len(s)))

\* tokenize
tokenize(q) == SelectSeq(SplitSpace(normalize_query(q)), LAMBDA t : t # <<>>)

\* Variant: the place of the last occurrence decides the order.
RECURSIVE UniqueFrom_LastOccurrence(_, _)
UniqueFrom_LastOccurrence(items, out) ==
    IF items = <<>> THEN out
    ELSE UniqueFrom_LastOccurrence(
             Tail(items),
             Append(SelectSeq(out, LAMBDA x : x # Head(items)), Head(items)))

\* The loop of unique_ordered over the items left, out being the list built
\* so far; the set seen holds exactly the elements of out.
RECURSIVE UniqueFrom(_, _)
UniqueFrom(items, out) ==
    IF items = <<>> THEN out
    ELSE UniqueFrom(Tail(items),
                    IF Head(items) \in Range(out) THEN out
                    ELSE Append(out, Head(items)))

\* unique_ordered
unique_ordered(items) == UniqueFrom(items, <<>>)

(***************************************************************************)
(* expansion.py.  A suffixes argument is [t |-> "None"] or                 *)
(* [t |-> "list", v |-> the list].                                         *)
(***************************************************************************)
KOREAN_LONGTAIL_SUFFIXES ==
    << <<"bang", "beop">>, <<"hu", "gi">>, <<"ri", "byu">>, <<"bi", "gyo">>,
       <<"chu", "cheon">>, <<"ga", "gyeok">>, <<"ju", "ui", "sa", "hang">>,
       <<"jang", "jeom">>, <<"dan", "jeom">>, <<"ga", "seong", "bi">> >>

NoSuffixes == [t |-> "None", v |-> <<>>]
SuffixList(l) == [t |-> "list", v |-> l]

\* Variant: the suffix stands before the seed.
append_suffixes_SuffixFirst(seed, suffixes) ==
    LET l == IF suffixes.t # "None" THEN suffixes.v ELSE KOREAN_LONGTAIL_SUFFIXES
    IN  unique_ordered([k \in 1..Len(l) |-> normalize_query(l[k] \o <<" ">> \o seed)])

\* append_suffixes
append_suffixes(seed, suffixes) ==
    LET l == IF suffixes.t # "None" THEN suffixes.v ELSE KOREAN_LONGTAIL_SUFFIXES
    IN  unique_ordered([k \in 1..Len(l) |-> normalize_query(seed \o <<" ">> \o l[k])])

\* The loop of expand_with_suffixes over the seeds from number i on.
RECURSIVE ExtendFrom(_, _, _, _)
ExtendFrom(seeds, suffixes, i, out) ==
    IF i > Len(seeds) THEN out
    ELSE ExtendFrom(seeds, suffixes, i + 1, out \o append_suffixes(seeds[i], suffixes))

\* expand_with_suffixes
expand_with_suffixes(seeds, suffixes) ==
    unique_ordered(ExtendFrom(seeds, suffixes, 1, <<>>))

PROFILE_SUFFIXES ==
    (<<"t", "r", "a", "v", "e", "l">> :>
        << <<"yeo", "haeng">>, <<"il", "jeong">>, <<"ju", "cha">>,
           <<"ren", "teo", "ka">>, <<"ya", "gyeong">>, <<"suk", "so">>,
           <<"ka", "pe">>, <<"mat", "jip">>, <<"ye", "san">> >>)
    @@ (<<"f", "o", "o", "d">> :>
        << <<"mat", "jip">>, <<"ka", "pe">>, <<"beu", "reon", "chi">>,
           <<"di", "jeo", "teu">>, <<"me", "nyu">>, <<"ga", "gyeok">>,
           <<"ye", "yak">>, <<"we", "i", "ting">>, <<"ju", "cha">> >>)

\* Variant: an unknown profile gives None, which selects the default list.
ProfileGet_DefaultNone(profile) ==
    IF Lower(profile) \in DOMAIN PROFILE_SUFFIXES
    THEN SuffixList(PROFILE_SUFFIXES[Lower(profile)])
    ELSE NoSuffixes

\* PROFILE_SUFFIXES.get(profile.lower(), [])
ProfileGet(profile) ==
    IF Lower(profile) \in DOMAIN PROFILE_SUFFIXES
    THEN SuffixList(PROFILE_SUFFIXES[Lower(profile)])
    ELSE SuffixList(<<>>)

\* expand_with_profile
expand_with_profile(seeds, profile) == expand_with_suffixes(seeds, ProfileGet(profile))

(***************************************************************************)
(* enrichers.py.  What HttpClient.get_json gives a client is a response:   *)
(* [t |-> "raise"] when get_json raises, [t |-> "list"] for JSON that is   *)
(* not an object, or a record with t = "dict" and the fields read by the   *)
(* client.  A JSON field is PyInt(n), Digits(n) (a string of digits),      *)
(* PyStr (any other string) or PyNone (missing).                           *)
(***************************************************************************)
Digits(n) == [t |-> "digits", v |-> n]
Raise == [t |-> "raise"]
NotDict == [t |-> "list"]
BlogJson(total) == [t |-> "dict", total |-> total]
CseJson(totalResults) == [t |-> "dict", totalResults |-> totalResults]
\* keywordList with one item, or the empty list when has_item is FALSE.
AdsJson(has_item, pc, mob, cpc) ==
    [t |-> "dict", has_item |-> has_item,
     monthlyPcQcCnt |-> pc, monthlyMobileQcCnt |-> mob, plAvgCpc |-> cpc]

\* Variant: a transport failure leaves the client as an exception.
LookupEscapes_Transport(resp) == resp.t = "raise"

\* Whether an exception leaves blog_total, total_results or keyword_stats:
\* each body is inside try ... except Exception: return None.
LookupEscapes(resp) == FALSE

\* NaverOpenApiEnricher.blog_total
blog_total(resp) ==
    IF resp.t = "dict" /\ resp.total.t = "int" THEN resp.total ELSE PyNone

\* GoogleCSEnricher.total_results
total_results(resp) ==
    IF resp.t = "dict" /\ resp.totalResults.t = "digits"
    THEN PyInt(resp.totalResults.v)
    ELSE PyNone

\* int(x) if isinstance(x, (int, float, str)) and str(x).isdigit() else None
DigitsOrNone(x) ==
    IF (x.t = "int" /\ x.v >= 0) \/ x.t = "digits" THEN PyInt(x.v) ELSE PyNone

\* NaverAdsEnricher.keyword_stats: (pc, mob, cpc)
keyword_stats(resp) ==
    IF resp.t = "dict" /\ resp.has_item
    THEN <<DigitsOrNone(resp.monthlyPcQcCnt),
           DigitsOrNone(resp.monthlyMobileQcCnt),
           IF resp.plAvgCpc.t = "int" THEN resp.plAvgCpc ELSE PyNone>>
    ELSE <<PyNone, PyNone, PyNone>>

\* `limit or len(keywords)`: None and 0 are falsy.
EffectiveLimit(limit, kws) ==
    IF limit.t = "None" \/ limit.v = 0 THEN Len(kws) ELSE limit.v

\* The length of kws[:n]: a negative n counts from the end.
SliceLen(kws, n) ==
    IF n >= 0 THEN Min(n, Len(kws)) ELSE Max(Len(kws) + n, 0)

\* Variant: a lookup that returned nothing is made a second time.
CallsFor_Retrying(i, clients) ==
    LET order == SelectSeq(<<"naver_openapi", "google_cse", "naver_ads">>,
                           LAMBDA s : s \in clients)
    IN  [k \in 1..(2 * Len(order)) |-> <<i, order[((k - 1) % Len(order)) + 1]>>]

\* The client calls of one loop iteration of enrich_keywords, in the order
\* of the three `if ... in enrichers` statements; each call returns before
\* the next statement runs.
CallsFor(i, clients) ==
    LET order == SelectSeq(<<"naver_openapi", "google_cse", "naver_ads">>,
                           LAMBDA s : s \in clients)
    IN  [k \in 1..Len(order) |-> <<i, order[k]>>]

\* The record enrich_keywords builds for one keyword from the responses
\* its configured clients get.
EnrichOne(clients, r) ==
    LET stats == IF "naver_ads" \in clients THEN keyword_stats(r.naver_ads)
                 ELSE <<PyNone, PyNone, PyNone>>
    IN  EnrichedMetrics(
            stats[1], stats[2],
            IF "naver_openapi" \in clients THEN blog_total(r.naver_openapi) ELSE PyNone,
            IF "google_cse" \in clients THEN total_results(r.google_cse) ELSE PyNone,
            stats[3])

(***************************************************************************)
(* http.py and providers/.  The service's behaviour for one request is     *)
(* [fails |-> the number of attempts that fail before one succeeds,        *)
(*  json |-> the JSON a successful attempt returns].  The JSON is          *)
(* [t |-> kind, v |-> entries]: "suggestions" is the shape the provider    *)
(* expects, with its list of entries; "wrong_type" is JSON of another      *)
(* type (an object for Google, an array for Naver); "short" lacks the list *)
(* (an array of one element, an object without "items"); "null_list" has   *)
(* null and "scalar_list" a number where the list is expected.  An entry   *)
(* is [str |-> TRUE, s |-> the string] or, for a non-string, str = FALSE.  *)
(***************************************************************************)
\* HttpClient.__init__: max_retries = 2
MaxRetries == 2

\* HttpClient.get_json: attempts 1 .. max_retries + 1, the first success
\* returns; when all fail the last exception is raised.
get_json(service) ==
    IF service.fails >= MaxRetries + 1 THEN Raise ELSE service.json

\* range(self.max_retries + 1): the number of passes through the loop.
AttemptLimit(max_retries) == Max(max_retries + 1, 0)

\* Variant: the exception of the first failed attempt is kept.
LastAfter_KeepFirst(last, k) == IF last = 0 THEN k ELSE last

\* except Exception as e: last = e.  An exception is named by the number
\* of the attempt that raised it; 0 stands for None.
LastAfter(last, k) == k

StrEntry(s) == [str |-> TRUE, s |-> s]
NonStrEntry == [str |-> FALSE, s |-> <<>>]

\* The reply of suggest: a list, or an exception.
Returned(l) == [raised |-> FALSE, v |-> l]
Raised == [raised |-> TRUE, v |-> <<>>]

\* unique_ordered([s for s in cleaned if s and s != seed]) of the string
\* entries, each normalized.
CleanSuggestions(entries, seed) ==
    LET strs == SelectSeq(entries, LAMBDA x : x.str)
        cleaned == [k \in 1..Len(strs) |-> normalize_query(strs[k].s)]
    IN  unique_ordered(SelectSeq(cleaned, LAMBDA c : c # <<>> /\ c # seed))

\* GoogleSuggestProvider.suggest and NaverSuggestProvider.suggest on what
\* get_json gave: the request is outside any try, Google iterates data[1]
\* unguarded, Naver tests every level with isinstance.
SuggestOf(provider, seed, data) ==
    IF data.t = "raise" THEN Raised
    ELSE IF data.t = "suggestions" THEN Returned(CleanSuggestions(data.v, seed))
    ELSE IF provider = "google" /\ data.t = "scalar_list" THEN Raised
    ELSE Returned(<<>>)

\* What the service of a provider does with the request for q: svc gives,
\* per provider, one behaviour for a request that is one of the seeds and
\* one for a request with a longtail suffix.
Answer(svc, provider, q, seeds) ==
    svc[provider][IF q \in Range(seeds) THEN "seed" ELSE "longtail"]

\* The body of bulk_suggest from the loop on: out.extend(self.suggest(s)) for
\* each s, then unique_ordered(out).
RECURSIVE BulkFrom(_, _, _, _, _)
BulkFrom(provider, queries, svc, seeds, out) ==
    IF queries = <<>> THEN Returned(unique_ordered(out))
    ELSE LET reply == SuggestOf(provider, Head(queries),
                                get_json(Answer(svc, provider, Head(queries), seeds)))
         IN  IF reply.raised THEN Raised
             ELSE BulkFrom(provider, Tail(queries), svc, seeds, out \o reply.v)

\* NaverSuggestProvider.bulk_suggest and GoogleSuggestProvider.bulk_suggest.
bulk_suggest(provider, queries, svc, seeds) ==
    BulkFrom(provider, queries, svc, seeds, <<>>)

(***************************************************************************)
(* streamlit_platform.py and streamlit_monetization.py: the collection of  *)
(* suggestions, which is the same code in both dashboards.                 *)
(***************************************************************************)
NameNaver == <<"n", "a", "v", "e", "r">>
NameGoogle == <<"g", "o", "o", "g", "l", "e">>

\* provider_names = [p.strip().lower() for p in provider_names] and the two
\* `in provider_names` tests: Naver first, then Google.
Providers(names) ==
    LET norm == {Lower(Strip(names[k])) : k \in 1..Len(names)}
    IN  (IF NameNaver \in norm THEN <<"naver">> ELSE <<>>)
           \o (IF NameGoogle \in norm THEN <<"google">> ELSE <<>>)

\* hit_counts.get(kw, 0)
HitCountOf(hits, kw) == IF kw \in DOMAIN hits THEN hits[kw] ELSE 0

\* Variant: a keyword is counted when it is first seen only.
RECURSIVE Accumulate_CountOnce(_, _, _)
Accumulate_CountOnce(all, hits, cands) ==
    IF cands = <<>> THEN [all |-> all, hits |-> hits]
    ELSE LET kw == Head(cands)
         IN  Accumulate_CountOnce(
                 Append(all, kw),
                 [k \in DOMAIN hits \cup {kw} |-> IF k = kw THEN 1 ELSE hits[k]],
                 Tail(cands))

\* _accumulate(cands)
RECURSIVE Accumulate(_, _, _)
Accumulate(all, hits, cands) ==
    IF cands = <<>> THEN [all |-> all, hits |-> hits]
    ELSE LET kw == Head(cands)
         IN  Accumulate(
                 Append(all, kw),
                 [k \in DOMAIN hits \cup {kw} |->
                     IF k = kw THEN HitCountOf(hits, kw) + 1 ELSE hits[k]],
                 Tail(cands))

(***************************************************************************)
(* trends.py.  The syllable U+C624 is written "oh" to keep it apart from   *)
(* the letter "o".                                                         *)
(***************************************************************************)
default_hot_terms ==
    << <<"hat", "peul">>, <<"nyu", "oh", "peun">>, <<"oh", "peun", "reon">>,
       <<"we", "i", "ting">>, <<"ye", "yak">>, <<"oh", "syeon", "byu">>,
       <<"ba", "da", "byu">>, <<"ru", "peu", "tap">>, <<"ya", "gyeong">>,
       <<"beu", "reon", "chi">>, <<"di", "jeo", "teu">>, <<"ga", "seong", "bi">>,
       <<"mu", "ryo", "ju", "cha">>, <<"no", "ki", "jeu", "jon">>,
       <<"ae", "gyeon", "dong", "ban">>, <<"po", "jang">>, <<"bae", "dal">> >>

\* ord(c) of the characters that occur in snapshots.
CodePoint(c) ==
    CASE c = " " -> 32
      [] c = "A" -> 65
      [] c = "a" -> 97
      [] c = "b" -> 98
      [] c = "c" -> 99
      [] c = "gyeong" -> 44221
      [] c = "reon" -> 47088
      [] c = "beu" -> 48652
      [] c = "seo" -> 49436
      [] c = "ya" -> 50556
      [] c = "ul" -> 50872
      [] c = "je" -> 51228
      [] c = "ju" -> 51452
      [] c = "chi" -> 52824

\* a < b for Python strings: by code point, a proper prefix first.
RECURSIVE StrLess(_, _)
StrLess(a, b) ==
    IF b = <<>> THEN FALSE
    ELSE IF a = <<>> THEN TRUE
    ELSE IF Head(a) # Head(b) THEN CodePoint(Head(a)) < CodePoint(Head(b))
    ELSE StrLess(Tail(a), Tail(b))

\* Variant: the strings are listed from the largest to the smallest.
RECURSIVE SortedStrings_Descending(_)
SortedStrings_Descending(S) ==
    IF S = {} THEN <<>>
    ELSE LET m == CHOOSE x \in S : \A y \in S \ {x} : StrLess(y, x)
         IN  <<m>> \o SortedStrings_Descending(S \ {m})

\* sorted(S) of a set of strings.
RECURSIVE SortedStrings(_)
SortedStrings(S) ==
    IF S = {} THEN <<>>
    ELSE LET m == CHOOSE x \in S : \A y \in S \ {x} : StrLess(x, y)
         IN  <<m>> \o SortedStrings(S \ {m})

\* terms = hot_terms or default_hot_terms(): None and [] are falsy.
TermsUsed(hot_terms) ==
    IF hot_terms.t = "None" \/ hot_terms.v = <<>> THEN default_hot_terms
    ELSE hot_terms.v

\* counts[t] after the two loops: every occurrence of t in terms adds 1 for
\* every keyword of curr_set that contains t.
HotCount(terms, curr_set, t) ==
    Cardinality({k \in 1..Len(terms) : terms[k] = t})
       * Cardinality({s \in curr_set : Contains(s, t)})

RECURSIVE InsertHot(_, _)
InsertHot(s, r) ==
    IF s = <<>> THEN <<r>>
    ELSE IF Head(s)[2] < r[2] THEN <<r>> \o s
    ELSE <<Head(s)>> \o InsertHot(Tail(s), r)

\* sorted(items, key=lambda x: x[1], reverse=True): stable.
RECURSIVE SortHot(_)
SortHot(s) ==
    IF s = <<>> THEN <<>>
    ELSE InsertHot(SortHot(SubSeq(s, 1, Len(s) - 1)), s[Len(s)])

\* hot_sorted: the items of counts, in the order the keys were inserted,
\* with a count > 0, sorted by count.
HotSorted(terms, curr_set) ==
    LET keys == unique_ordered(terms)
        items == [k \in 1..Len(keys) |-> <<keys[k], HotCount(terms, curr_set, keys[k])>>]
    IN  SortHot(SelectSeq(items, LAMBDA x : x[2] > 0))

(***************************************************************************)
(* scoring.py.  Scores are held in millionths while they are computed and  *)
(* in thousandths once round(x, 3) has been applied.                       *)
(***************************************************************************)
\* math.log10(n) in millionths, to the nearest millionth.
Log10Micro(n) ==
    CASE n = 1 -> 0
      [] n = 2 -> 301030
      [] n = 6 -> 778151
      [] n = 10 -> 1000000
      [] n = 31 -> 1491362
      [] n = 1001 -> 3000434
      [] n = 100000 -> 5000000
      [] n = 1000001 -> 6000000
      [] n = 12000001 -> 7079181
      [] n = 1000000000 -> 9000000

\* round(x, 3) of x millionths, in thousandths.
RoundMilli(x) == (x + 500) \div 1000

\* KeywordScore, the three scores rounded to 3 decimals.
KeywordScore(kw, d, c, opp, hits) ==
    [keyword |-> kw, demand |-> RoundMilli(d), competition |-> RoundMilli(c),
     opportunity |-> RoundMilli(opp), provider_hits |-> hits]

\* Variant: the upper end of the token range is exclusive.
estimate_demand_score_Exclusive(q, provider_hits) ==
    LET n == Len(tokenize(q))
        base == IF 2 <= n /\ n < 5 THEN 1000 ELSE 600
    IN  Min(base * (1000 + Min(provider_hits, 5) * 100), 3000000)

\* estimate_demand_score, in millionths.
estimate_demand_score(q, provider_hits) ==
    LET n == Len(tokenize(q))
        base == IF 2 <= n /\ n <= 5 THEN 1000 ELSE 600
    IN  Min(base * (1000 + Min(provider_hits, 5) * 100), 3000000)

\* estimate_competition_score, in millionths.
estimate_competition_score(q) ==
    LET n == Len(tokenize(q)) IN
    IF n <= 1 THEN 2000000
    ELSE Max(500000, 1500000 - Min(n - 2, 4) * 120000)

\* Variant: the difference is not floored at 0.
Opportunity_NoFloor(d, c) == (d * 14) \div 10 - c

\* max(d * 1.4 - c, 0.0), in millionths.
Opportunity(d, c) == Max((d * 14) \div 10 - c, 0)

\* Variant: a missing entry counts as no hit.
HitsGet_DefaultZero(hc, kw) == IF kw \in DOMAIN hc THEN hc[kw] ELSE 0

\* hit_counts.get(kw, 1)
HitsGet(hc, kw) == IF kw \in DOMAIN hc THEN hc[kw] ELSE 1

\* One iteration of score_keywords' loop.
HeuristicScore(kw, hc) ==
    LET hits == HitsGet(hc, kw)
        d == estimate_demand_score(kw, hits)
        c == estimate_competition_score(kw)
    IN  KeywordScore(kw, d, c, Opportunity(d, c), hits)

\* Variant: a total of 0 goes through the logarithm as well.
comp_from_results_NoZeroBranch(total) ==
    Max(600000, Min(2300000, 700000 + Log10Micro(Max(total, 0) + 1) \div 4))

\* _comp_from_results, in millionths.
comp_from_results(total) ==
    IF total <= 0 THEN 800000
    ELSE Max(600000, Min(2300000, 700000 + Log10Micro(total + 1) \div 4))

\* (getattr(m, name, 0) or 0) for one volume field: None gives 0.
OrZero(x) == IF x.t = "int" THEN x.v ELSE 0

\* The sum of the two volume fields raises TypeError when one is a string.
MonthlyRaises(m) == m.naver_monthly_pc.t = "str" \/ m.naver_monthly_mobile.t = "str"

\* The per-source competition values of the totals that are ints.
Comps(m) ==
    (IF m.naver_blog_total.t = "int"
     THEN <<comp_from_results(m.naver_blog_total.v)>> ELSE <<>>)
    \o (IF m.google_total.t = "int"
        THEN <<comp_from_results(m.google_total.v)>> ELSE <<>>)

RECURSIVE SumSeq(_)
SumSeq(s) == IF s = <<>> THEN 0 ELSE Head(s) + SumSeq(Tail(s))

\* Variant: the heuristic demand is kept up to a volume of 1.
MetricsDemand_HeuristicAtOne(kw, hits, m) ==
    LET monthly == OrZero(m.naver_monthly_pc) + OrZero(m.naver_monthly_mobile) IN
    IF ~MonthlyRaises(m) /\ monthly > 1
    THEN Min(3000000,
             600000 + (Log10Micro(1 + monthly) * 6) \div 10 + Min(hits, 5) * 50000)
    ELSE estimate_demand_score(kw, hits)

\* The demand after the try block, in millionths.
MetricsDemand(kw, hits, m) ==
    LET monthly == OrZero(m.naver_monthly_pc) + OrZero(m.naver_monthly_mobile) IN
    IF ~MonthlyRaises(m) /\ monthly > 0
    THEN Min(3000000,
             600000 + (Log10Micro(1 + monthly) * 6) \div 10 + Min(hits, 5) * 50000)
    ELSE estimate_demand_score(kw, hits)

\* Variant: the totals are read although the volume sum raised.
MetricsCompetition_Unguarded(kw, m) ==
    IF Comps(m) # <<>>
    THEN Max(500000, Min(SumSeq(Comps(m)) \div Len(Comps(m)), 2500000))
    ELSE estimate_competition_score(kw)

\* The competition after the try block, in millionths.
MetricsCompetition(kw, m) ==
    IF ~MonthlyRaises(m) /\ Comps(m) # <<>>
    THEN Max(500000, Min(SumSeq(Comps(m)) \div Len(Comps(m)), 2500000))
    ELSE estimate_competition_score(kw)

\* One iteration of score_keywords_with_metrics' loop.
MetricsScore(kw, hc, mt) ==
    LET hits == HitsGet(hc, kw)
        m == MetricsGet(mt, kw)
        d == MetricsDemand(kw, hits, m)
        c == MetricsCompetition(kw, m)
    IN  KeywordScore(kw, d, c, Opportunity(d, c), hits)

\* Variant: the metrics are never used.
MetricsSupplied_Never(none, mt) == FALSE

\* `if metrics:` of score_keywords_by_platform: None and the empty dict are
\* falsy.
MetricsSupplied(none, mt) == ~none /\ DOMAIN mt # {}

\* The sort key (opportunity, demand): a's key is below b's.
ScoreKeyLess(a, b) ==
    \/ a.opportunity < b.opportunity
    \/ a.opportunity = b.opportunity /\ a.demand < b.demand

RECURSIVE InsertScore(_, _)
InsertScore(s, r) ==
    IF s = <<>> THEN <<r>>
    ELSE IF ScoreKeyLess(Head(s), r) THEN <<r>> \o s
    ELSE <<Head(s)>> \o InsertScore(Tail(s), r)

\* Variant: the results are returned in input order.
SortScores_Unsorted(s) == s

\* results.sort(key=lambda x: (x.opportunity, x.demand), reverse=True)
RECURSIVE SortScores(_)
SortScores(s) ==
    IF s = <<>> THEN <<>>
    ELSE InsertScore(SortScores(SubSeq(s, 1, Len(s) - 1)), s[Len(s)])

(***************************************************************************)
(* Inputs of monetize_keywords.                                            *)
(***************************************************************************)
KwPrice == <<"ga", "gyeok">>
KwHowPrice == <<"bang", "beop", " ", "ga", "gyeok">>
KwTopReview == <<"T", "O", "P", " ", "hu", "gi">>
KwJeju == <<"je", "ju", " ", "mat", "jip">>
KwFreeCoupon == <<"mu", "ryo", " ", "ku", "pon">>

MonKeywordPool == <<KwPrice, KwHowPrice, KwTopReview, KwJeju, KwFreeCoupon>>

\* Metrics values a keyword may carry; "absent" stands for a missing key.
MonRecordPool ==
    <<EnrichedMetrics(PyInt(600), PyInt(400), PyNone, PyNone, PyNone),
      EnrichedMetrics(PyInt(1000), PyNone, PyNone, PyNone, PyInt(320)),
      EnrichedMetrics(PyNone, PyNone, PyInt(12), PyNone, PyNone),
      EnrichedMetrics(PyStr, PyInt(1000), PyNone, PyNone, PyNone),
      EnrichedMetrics(PyInt(-50), PyInt(20), PyNone, PyNone, PyNone),
      EnrichedMetrics(PyInt(999), PyInt(0), PyNone, PyNone, PyNone),
      EnrichedMetrics(PyInt(30), PyInt(20), PyNone, PyNone, PyNone),
      NoMetrics,
      [NoMetrics EXCEPT !.t = "absent"]>>

\* Map number j gives keyword number i the record number (i + j) mod n, so
\* that every keyword meets every record.
MonMetricsMap(j) ==
    LET n == Len(MonRecordPool)
        rec(i) == MonRecordPool[((i + j) % n) + 1]
        present == {i \in 1..Len(MonKeywordPool) : rec(i).t # "absent"}
    IN  [kw \in {MonKeywordPool[i] : i \in present} |->
            rec(CHOOSE i \in present : MonKeywordPool[i] = kw)]

MonMetricsChoices == {MonMetricsMap(j) : j \in 0..(Len(MonRecordPool) - 1)}

MonParamChoices ==
    {DefaultParams,
     MonetizationParams(120, 10, 1000, -5, 1000),
     MonetizationParams(33, 21, 777, 27, 99),
     MonetizationParams(150, 10, 500, 5, 800),
     MonetizationParams(50, 10, -300, 10, 1000)}

MinMonthlyChoices == {0, 1000}

ExcludeChoices ==
    {<<>>,
     << <<"mu", "ryo">>, <<"ku", "pon">> >>,
     << <<" ", "ga", "gyeok", " ">>, <<>>, <<" ", "\t">> >>,
     << <<>>, <<" ">> >>}

(***************************************************************************)
(* monetize_keywords as a process: one step per keyword of the loop, then  *)
(* the sort.                                                               *)
(***************************************************************************)
MonInit ==
    /\ keywords \in SeqUpTo(Range(MonKeywordPool), MaxKeywords)
    /\ metrics \in MonMetricsChoices
    /\ params \in MonParamChoices
    /\ min_monthly \in MinMonthlyChoices
    /\ exclude_tokens \in ExcludeChoices
    /\ rows = <<>>
    /\ mon_i = 1
    /\ mon_pc = "loop"

MonInLoop == mon_pc = "loop" /\ mon_i <= Len(keywords)

\* if not m: continue
MonSkipNoMetrics ==
    /\ MonInLoop
    /\ ~Truthy(MetricsGet(metrics, keywords[mon_i]))
    /\ mon_i' = mon_i + 1
    /\ UNCHANGED <<keywords, metrics, params, min_monthly, exclude_tokens, rows, mon_pc, monOthers>>

\* if monthly < int(min_monthly): continue
MonSkipBelowMin ==
    /\ MonInLoop
    /\ Truthy(MetricsGet(metrics, keywords[mon_i]))
    /\ BelowMin(monthly_from_metrics(MetricsGet(metrics, keywords[mon_i])), min_monthly)
    /\ mon_i' = mon_i + 1
    /\ UNCHANGED <<keywords, metrics, params, min_monthly, exclude_tokens, rows, mon_pc, monOthers>>

\* if ex_set and any(tok in kw for tok in ex_set): continue
MonSkipExcluded ==
    /\ MonInLoop
    /\ Truthy(MetricsGet(metrics, keywords[mon_i]))
    /\ ~(BelowMin(monthly_from_metrics(MetricsGet(metrics, keywords[mon_i])), min_monthly))
    /\ Excluded(keywords[mon_i], exclude_tokens)
    /\ mon_i' = mon_i + 1
    /\ UNCHANGED <<keywords, metrics, params, min_monthly, exclude_tokens, rows, mon_pc, monOthers>>

\* rows.append({...})
MonAppend ==
    /\ MonInLoop
    /\ Truthy(MetricsGet(metrics, keywords[mon_i]))
    /\ ~(BelowMin(monthly_from_metrics(MetricsGet(metrics, keywords[mon_i])), min_monthly))
    /\ ~Excluded(keywords[mon_i], exclude_tokens)
    /\ rows' = Append(rows, Row(keywords[mon_i], MetricsGet(metrics, keywords[mon_i]), params))
    /\ mon_i' = mon_i + 1
    /\ UNCHANGED <<keywords, metrics, params, min_monthly, exclude_tokens, mon_pc, monOthers>>

\* rows.sort(...); return rows
MonSort ==
    /\ mon_pc = "loop"
    /\ mon_i > Len(keywords)
    /\ rows' = SortRows(rows)
    /\ mon_pc' = "done"
    /\ UNCHANGED <<keywords, metrics, params, min_monthly, exclude_tokens, mon_i, monOthers>>

MonIdle ==
    /\ keywords = <<>>
    /\ metrics = <<>>
    /\ params = DefaultParams
    /\ min_monthly = 0
    /\ exclude_tokens = <<>>
    /\ rows = <<>>
    /\ mon_i = 1
    /\ mon_pc = "idle"

CiIdle ==
    /\ ci_keyword = <<>>
    /\ ci_label = "none"
    /\ ci_pc = "idle"

ScIdle ==
    /\ sc_fn = "none"
    /\ sc_keywords = <<>>
    /\ hit_counts = <<>>
    /\ sc_metrics = <<>>
    /\ results = <<>>
    /\ sc_i = 1
    /\ sc_pc = "idle"
    /\ sc_entry = "none"
    /\ sc_none = FALSE
    /\ sc_platform = "naver"

UoIdle ==
    /\ uo_items = <<>>
    /\ uo_out = <<>>
    /\ uo_prev = <<>>
    /\ uo_pc = "idle"

ExIdle ==
    /\ ex_fn = "none"
    /\ ex_seeds = <<>>
    /\ ex_suffixes = NoSuffixes
    /\ ex_profile = <<>>
    /\ ex_out = <<>>
    /\ ex_i = 1
    /\ ex_pc = "idle"

EnIdle ==
    /\ en_caller = "none"
    /\ en_keywords = <<>>
    /\ en_clients = {}
    /\ en_limit = PyNone
    /\ en_resp = <<>>
    /\ en_out = <<>>
    /\ en_calls = <<>>
    /\ en_i = 1
    /\ en_pc = "idle"

SgIdle ==
    /\ sg_provider = "none"
    /\ sg_seeds = <<>>
    /\ sg_resp = <<>>
    /\ sg_out = <<>>
    /\ sg_i = 1
    /\ sg_pc = "idle"

TrIdle ==
    /\ tr_prev = <<>>
    /\ tr_curr = <<>>
    /\ tr_terms = [t |-> "None", v |-> <<>>]
    /\ tr_new = <<>>
    /\ tr_dropped = <<>>
    /\ tr_hot = <<>>
    /\ tr_pc = "idle"

CsIdle ==
    /\ cs_seeds = <<>>
    /\ cs_names = <<>>
    /\ cs_depth = 1
    /\ cs_service = <<>>
    /\ cs_queries = <<>>
    /\ cs_all = <<>>
    /\ cs_hits = <<>>
    /\ cs_log = <<>>
    /\ cs_round = 1
    /\ cs_p = 1
    /\ cs_out = <<>>
    /\ cs_pc = "idle"

HjIdle ==
    /\ hj_max_retries = MaxRetries
    /\ hj_outcomes = <<>>
    /\ hj_attempts = 0
    /\ hj_last = 0
    /\ hj_result = [t |-> "none", v |-> 0]
    /\ hj_pc = "idle"

DbIdle ==
    /\ db_has_nonce = FALSE
    /\ db_nonce = 0
    /\ db_seeds = <<>>
    /\ db_log = <<>>
    /\ db_clicks = 0
    /\ db_pc = "idle"

MonNext ==
    \/ MonSkipNoMetrics
    \/ MonSkipBelowMin
    \/ MonSkipExcluded
    \/ MonAppend
    \/ MonSort

InitMon == MonInit /\ CiIdle /\ ScIdle /\ UoIdle /\ ExIdle /\ EnIdle /\ SgIdle /\ TrIdle /\ CsIdle /\ HjIdle /\ DbIdle

SpecMon == InitMon /\ [][MonNext]_vars

(***************************************************************************)
(* classify_intent on keywords built from pieces: intent tokens of the     *)
(* three lists, single syllables that join into a token, and fillers.      *)
(***************************************************************************)
MaxPieces == 3

IntentPieces ==
    {<<"ga", "gyeok">>, <<"ku", "pon">>, <<"bi">>, <<"yong">>,
     <<"chu", "cheon">>, <<"T", "O", "P">>, <<"v", "s">>,
     <<"bang", "beop">>, <<"ha", "neun", " ", "beop">>,
     <<"je", "ju">>, <<" ">>}

RECURSIVE Concat(_)
Concat(ss) == IF ss = <<>> THEN <<>> ELSE Head(ss) \o Concat(Tail(ss))

CiInit ==
    /\ ci_keyword \in {Concat(ps) : ps \in SeqUpTo(IntentPieces, MaxPieces)}
    /\ ci_label = "none"
    /\ ci_pc = "call"

\* label = classify_intent(keyword)
CiClassify ==
    /\ ci_pc = "call"
    /\ ci_label' = classify_intent(ci_keyword)
    /\ ci_pc' = "done"
    /\ UNCHANGED <<ci_keyword, ciOthers>>

CiNext == CiClassify

InitIntent == CiInit /\ MonIdle /\ ScIdle /\ UoIdle /\ ExIdle /\ EnIdle /\ SgIdle /\ TrIdle /\ CsIdle /\ HjIdle /\ DbIdle

SpecIntent == InitIntent /\ [][CiNext]_vars

(***************************************************************************)
(* Properties of monetize_keywords (checked under SpecMon).                *)
(***************************************************************************)
\* The keywords of the rows built so far.
RowKeywords == {rows[i].keyword : i \in 1..Len(rows)}

\* The rows of the worked example: default parameters, volume 1000.
ExampleRows ==
    {rows[i] : i \in {j \in 1..Len(rows) :
                        params = DefaultParams /\ rows[j].monthly_search = 1000}}

\* C1 (as stated): with the default parameters a keyword of volume 1000
\* gets est_visits 150, est_pageviews 195, est_display_rev 487,
\* est_aff_rev 3000 and est_total_rev 3487, the affiliate orders 2.25 being
\* truncated to 2 before the commission is applied.
C1_TruncatedOrdersExample ==
    \A r \in ExampleRows :
        /\ r.est_visits = 150
        /\ r.est_pageviews = 195
        /\ r.est_display_rev = 487
        /\ r.est_aff_rev = 3000
        /\ r.est_total_rev = 3487

\* C1 (amended): with the default parameters a keyword of volume 1000 gets
\* est_visits 150, est_pageviews 195, est_display_rev 487, est_aff_rev 3375
\* and est_total_rev 3862: the commission is applied to the untruncated
\* 2.25 orders and only the outputs are truncated.
C1_DefaultExample ==
    \A r \in ExampleRows :
        /\ r.est_visits = 150
        /\ r.est_pageviews = 195
        /\ r.est_display_rev = 487
        /\ r.est_aff_rev = 3375
        /\ r.est_total_rev = 3862

C1_Witness ==
    /\ mon_pc = "done"
    /\ ExampleRows # {}

\* The exclusion tokens that are non-empty after stripping, stripped.
NonBlankTokens ==
    {Strip(exclude_tokens[i]) : i \in 1..Len(exclude_tokens)} \ {<<>>}

\* Keyword number i has a metrics record and reaches the volume threshold.
PassesVolume(i) ==
    /\ keywords[i] \in DOMAIN metrics
    /\ metrics[keywords[i]].t = "EnrichedMetrics"
    /\ monthly_from_metrics(metrics[keywords[i]]) >= min_monthly

\* C2: no returned row has a keyword that contains an exclusion token that
\* is non-empty after stripping, whatever its volume; empty and blank tokens
\* exclude nothing (a keyword that passes the volume filter and contains no
\* non-blank token is returned).
C2_ExclusionTokens ==
    /\ \A r \in RowKeywords : \A tok \in NonBlankTokens : ~Contains(r, tok)
    /\ mon_pc = "done" =>
         \A i \in 1..Len(keywords) :
            (PassesVolume(i) /\ \A tok \in NonBlankTokens : ~Contains(keywords[i], tok))
               => keywords[i] \in RowKeywords

\* A token that needs stripping kept a high-volume keyword out, a blank
\* token kept nothing out.
C2_Witness ==
    /\ mon_pc = "done"
    /\ \E j \in 1..Len(exclude_tokens) :
          exclude_tokens[j] # <<>> /\ Strip(exclude_tokens[j]) = <<>>
    /\ \E i \in 1..Len(keywords) :
          /\ PassesVolume(i)
          /\ monthly_from_metrics(metrics[keywords[i]]) = 1000
          /\ \E tok \in NonBlankTokens :
                Contains(keywords[i], tok) /\ ~Contains(keywords[i], <<" ">> \o tok)
    /\ rows # <<>>

\* Keyword number i has a metrics record and matches no exclusion token.
Eligible(i) ==
    /\ keywords[i] \in DOMAIN metrics
    /\ metrics[keywords[i]].t = "EnrichedMetrics"
    /\ \A tok \in NonBlankTokens : ~Contains(keywords[i], tok)

\* C3: of the keywords with a metrics record and no exclusion match, one
\* whose monthly volume equals min_monthly is returned and one whose
\* monthly volume is below min_monthly is not.
C3_ThresholdInclusive ==
    mon_pc = "done" =>
       \A i \in 1..Len(keywords) :
          Eligible(i) =>
             LET monthly == monthly_from_metrics(metrics[keywords[i]]) IN
             /\ monthly = min_monthly => keywords[i] \in RowKeywords
             /\ monthly < min_monthly => keywords[i] \notin RowKeywords

C3_Witness ==
    /\ mon_pc = "done"
    /\ min_monthly = 1000
    /\ \E i, j \in 1..Len(keywords) :
          /\ Eligible(i) /\ Eligible(j)
          /\ monthly_from_metrics(metrics[keywords[i]]) = min_monthly
          /\ monthly_from_metrics(metrics[keywords[j]]) = min_monthly - 1
          /\ keywords[i] \in RowKeywords

\* C4: a keyword with no entry in the metrics map is never returned, for
\* any min_monthly; every row's keyword is a key of the metrics map.
C4_RowsHaveMetrics ==
    \A r \in RowKeywords : r \in DOMAIN metrics

C4_Witness ==
    /\ mon_pc = "done"
    /\ min_monthly = 0
    /\ \E i \in 1..Len(keywords) : keywords[i] \notin DOMAIN metrics
    /\ rows # <<>>

\* C6: the returned rows are in descending order of the pair
\* (est_total_rev, monthly_search).
C6_RowsSortedDescending ==
    mon_pc = "done" =>
       \A i \in 1..(Len(rows) - 1) :
          \/ rows[i].est_total_rev > rows[i + 1].est_total_rev
          \/ /\ rows[i].est_total_rev = rows[i + 1].est_total_rev
             /\ rows[i].monthly_search >= rows[i + 1].monthly_search

\* The sort moved a later keyword of higher revenue to the front.
C6_Witness ==
    /\ mon_pc = "done"
    /\ Len(rows) = 2
    /\ Len(keywords) = 2
    /\ rows[1].keyword = keywords[2]
    /\ rows[1].keyword # rows[2].keyword
    /\ rows[1].est_total_rev > rows[2].est_total_rev

\* A volume field as the claim counts it: a number counts, a missing or
\* non-numeric field is 0.
FieldOrZero(x) == IF x.t = "int" THEN x.v ELSE 0

\* C7: the monthly volume of a row is desktop + mobile volume, a missing or
\* non-numeric field counting as 0 while the other field still counts, and
\* never negative.
C7_MonthlyIsFieldSum ==
    \A i \in 1..Len(rows) :
       LET m == metrics[rows[i].keyword] IN
       /\ rows[i].monthly_search >= 0
       /\ rows[i].monthly_search =
             Max(FieldOrZero(m.naver_monthly_pc) + FieldOrZero(m.naver_monthly_mobile), 0)

(***************************************************************************)
(* Properties of classify_intent (checked under SpecIntent).               *)
(***************************************************************************)
\* The token list of a label, as a set.
TokensOf(label) ==
    LET li == CHOOSE i \in 1..Len(INTENT_RULES) : INTENT_RULES[i].label = label
    IN  Range(INTENT_RULES[li].tokens)

\* The keyword matches a token of the label, letter case ignored.
MatchesLabel(keyword, label) ==
    \E t \in TokensOf(label) : Contains(Lower(keyword), Lower(t))

\* C5: the lists are consulted in the order transactional, commercial,
\* informational: a keyword with a transactional token is transactional
\* wherever its other tokens stand, a keyword with a commercial and no
\* transactional token is commercial, and a keyword matching no token is
\* informational.
C5_IntentPriority ==
    ci_pc = "done" =>
       /\ MatchesLabel(ci_keyword, "transactional") => ci_label = "transactional"
       /\ (~MatchesLabel(ci_keyword, "transactional")
              /\ MatchesLabel(ci_keyword, "commercial")) => ci_label = "commercial"
       /\ (~MatchesLabel(ci_keyword, "transactional")
              /\ ~MatchesLabel(ci_keyword, "commercial")) => ci_label = "informational"

\* "bang beop" (informational) stands before "ga gyeok" (transactional).
C5_Witness ==
    /\ ci_pc = "done"
    /\ ci_keyword = <<"bang", "beop", " ", "ga", "gyeok">>
    /\ ci_label = "transactional"

(***************************************************************************)
(* Inputs of the scoring functions.                                        *)
(***************************************************************************)
\* Keywords of 0, 1, 2, 3, 5, 6 and 8 tokens, some with blanks to normalise.
ScoreKeywordPool ==
    << <<>>,
       <<"a">>,
       <<" ", "a", "\t", " ", "b", " ">>,
       <<"a", " ", "b", " ", "c">>,
       <<"a", " ", "b", " ", "c", " ", "d", "\n", "e">>,
       <<"a", " ", "b", " ", "c", " ", "d", " ", "e", " ", "f">>,
       <<"a", " ", "b", " ", " ", "c", " ", "d", " ", "e", " ", "f", " ", "g", " ", "h">> >>

\* Hit counts a keyword may carry; "absent" stands for a missing key.
HitPool == <<PyInt(0), PyInt(1), PyInt(3), PyInt(5), PyInt(7), [t |-> "absent", v |-> 0]>>

\* Map number j gives keyword number i the hit count number (i + j) mod n.
HitMap(j) ==
    LET n == Len(HitPool)
        hit(i) == HitPool[((i + j) % n) + 1]
        present == {i \in 1..Len(ScoreKeywordPool) : hit(i).t = "int"}
    IN  [kw \in {ScoreKeywordPool[i] : i \in present} |->
            hit(CHOOSE i \in present : ScoreKeywordPool[i] = kw).v]

HitMapChoices == {HitMap(j) : j \in 0..(Len(HitPool) - 1)}

\* Metrics values a keyword may carry in scoring.
ScoreRecordPool ==
    <<EnrichedMetrics(PyInt(600), PyInt(400), PyNone, PyNone, PyNone),
      EnrichedMetrics(PyNone, PyNone, PyNone, PyNone, PyNone),
      EnrichedMetrics(PyInt(9), PyNone, PyInt(0), PyNone, PyNone),
      EnrichedMetrics(PyNone, PyInt(30), PyInt(99999), PyInt(12000000), PyNone),
      EnrichedMetrics(PyStr, PyInt(500), PyInt(1000), PyNone, PyNone),
      EnrichedMetrics(PyInt(400000), PyInt(600000), PyInt(999999999), PyNone, PyNone),
      EnrichedMetrics(PyInt(0), PyInt(0), PyNone, PyInt(5), PyNone),
      EnrichedMetrics(PyInt(1), PyNone, PyNone, PyInt(1), PyNone),
      NoMetrics,
      [NoMetrics EXCEPT !.t = "absent"]>>

\* Map number j gives keyword number i the record number (i + j) mod n.
ScoreMetricsMap(j) ==
    LET n == Len(ScoreRecordPool)
        rec(i) == ScoreRecordPool[((i + j) % n) + 1]
        present == {i \in 1..Len(ScoreKeywordPool) : rec(i).t # "absent"}
    IN  [kw \in {ScoreKeywordPool[i] : i \in present} |->
            rec(CHOOSE i \in present : ScoreKeywordPool[i] = kw)]

ScoreMetricsChoices == {ScoreMetricsMap(j) : j \in 0..(Len(ScoreRecordPool) - 1)}

\* Values of the platform argument; "naver" is the default.
PlatformChoices == {"naver", "tistory", ""}

(***************************************************************************)
(* score_keywords and score_keywords_with_metrics as processes: one step   *)
(* per keyword of the loop, then the sort.  score_keywords_by_platform is  *)
(* one step that enters one of the two.  sc_none tells that the metrics    *)
(* argument is None (sc_metrics is then the empty map).                    *)
(***************************************************************************)
ScInit ==
    /\ sc_keywords \in SeqUpTo(Range(ScoreKeywordPool), MaxKeywords)
    /\ hit_counts \in HitMapChoices
    /\ \/ /\ sc_fn = "score_keywords"
          /\ sc_metrics = <<>> /\ sc_none = FALSE
          /\ sc_platform = "naver"
          /\ sc_pc = "loop"
       \/ /\ sc_fn = "score_keywords_with_metrics"
          /\ sc_metrics \in ScoreMetricsChoices /\ sc_none = FALSE
          /\ sc_platform = "naver"
          /\ sc_pc = "loop"
       \/ /\ sc_fn = "score_keywords_by_platform"
          /\ \/ sc_metrics = <<>> /\ sc_none \in BOOLEAN
             \/ sc_metrics \in ScoreMetricsChoices /\ sc_none = FALSE
          /\ sc_platform \in PlatformChoices
          /\ sc_pc = "call"
    /\ sc_entry = sc_fn
    /\ results = <<>>
    /\ sc_i = 1

\* score_keywords_by_platform: if metrics: return
\* score_keywords_with_metrics(...) else return score_keywords(...).  The
\* platform argument is not read.
ScoreByPlatform ==
    /\ sc_pc = "call"
    /\ sc_fn = "score_keywords_by_platform"
    /\ sc_fn' = IF MetricsSupplied(sc_none, sc_metrics)
                THEN "score_keywords_with_metrics"
                ELSE "score_keywords"
    /\ sc_pc' = "loop"
    /\ UNCHANGED <<sc_keywords, hit_counts, sc_metrics, results, sc_i,
                   sc_entry, sc_none, sc_platform, scOthers>>

\* score_keywords: results.append(KeywordScore(...))
ScoreStep ==
    /\ sc_pc = "loop"
    /\ sc_fn = "score_keywords"
    /\ sc_i <= Len(sc_keywords)
    /\ results' = Append(results, HeuristicScore(sc_keywords[sc_i], hit_counts))
    /\ sc_i' = sc_i + 1
    /\ UNCHANGED <<sc_fn, sc_keywords, hit_counts, sc_metrics, sc_pc,
                   sc_entry, sc_none, sc_platform, scOthers>>

\* score_keywords_with_metrics: results.append(KeywordScore(...))
ScoreMetricsStep ==
    /\ sc_pc = "loop"
    /\ sc_fn = "score_keywords_with_metrics"
    /\ sc_i <= Len(sc_keywords)
    /\ results' = Append(results, MetricsScore(sc_keywords[sc_i], hit_counts, sc_metrics))
    /\ sc_i' = sc_i + 1
    /\ UNCHANGED <<sc_fn, sc_keywords, hit_counts, sc_metrics, sc_pc,
                   sc_entry, sc_none, sc_platform, scOthers>>

\* results.sort(...); return results
ScoreSort ==
    /\ sc_pc = "loop"
    /\ sc_i > Len(sc_keywords)
    /\ results' = SortScores(results)
    /\ sc_pc' = "done"
    /\ UNCHANGED <<sc_fn, sc_keywords, hit_counts, sc_metrics, sc_i,
                   sc_entry, sc_none, sc_platform, scOthers>>

ScNext ==
    \/ ScoreByPlatform
    \/ ScoreStep
    \/ ScoreMetricsStep
    \/ ScoreSort

InitScore == ScInit /\ MonIdle /\ CiIdle /\ UoIdle /\ ExIdle /\ EnIdle /\ SgIdle /\ TrIdle /\ CsIdle /\ HjIdle /\ DbIdle

SpecScore == InitScore /\ [][ScNext]_vars

(***************************************************************************)
(* Properties of the scoring functions (checked under SpecScore).          *)
(***************************************************************************)
\* The number of tokens of a query, counted directly: the places where a
\* run of non-blank characters starts.
TokenCount(q) ==
    Cardinality({i \in 1..Len(q) :
                   q[i] \notin Whitespace /\ (i = 1 \/ q[i - 1] \in Whitespace)})

\* C8: in heuristic scoring a keyword of 2 to 5 tokens with hit count 0 has
\* demand exactly 1.0 (0.6 for any other token count) and a keyword of at
\* most one token has competition exactly 2.0, both for
\* estimate_demand_score / estimate_competition_score and for the
\* KeywordScore of score_keywords when hit_counts maps the keyword to 0.
C8_HeuristicBaseScores ==
    /\ \A i \in 1..Len(sc_keywords) :
          LET q == sc_keywords[i] IN
          /\ estimate_demand_score(q, 0) =
                (IF TokenCount(q) \in 2..5 THEN 1000000 ELSE 600000)
          /\ TokenCount(q) <= 1 => estimate_competition_score(q) = 2000000
    /\ sc_fn = "score_keywords" =>
          \A i \in 1..Len(results) :
             LET r == results[i] IN
             /\ r.provider_hits = 0 =>
                   r.demand = (IF TokenCount(r.keyword) \in 2..5 THEN 1000 ELSE 600)
             /\ TokenCount(r.keyword) <= 1 => r.competition = 2000

\* score_keywords returned a 5-token keyword with 0 hits, written with a
\* line break between two tokens, and a one-token keyword.
C8_Witness ==
    /\ sc_pc = "done"
    /\ sc_fn = "score_keywords"
    /\ \E i, j \in 1..Len(results) :
          /\ results[i].provider_hits = 0
          /\ TokenCount(results[i].keyword) = 5
          /\ results[i].keyword \in DOMAIN hit_counts
          /\ results[i].demand = 1000
          /\ TokenCount(results[j].keyword) = 1
          /\ results[j].competition = 2000

\* C9 (as stated): every KeywordScore of either mode has demand <= 3.0,
\* competition >= 0.5, opportunity >= 0 and
\* opportunity = max(demand * 1.4 - competition, 0).
C9_OpportunityExact ==
    \A i \in 1..Len(results) :
       LET r == results[i] IN
       /\ r.demand <= 3000
       /\ r.competition >= 500
       /\ r.opportunity >= 0
       /\ r.opportunity * 1000 = Max(r.demand * 1400 - r.competition * 1000, 0)

\* |x|
Abs(x) == IF x >= 0 THEN x ELSE -x

\* C9 (amended): every KeywordScore of either mode has demand <= 3.0,
\* competition >= 0.5 and opportunity >= 0; the three fields are rounded to
\* 3 decimals separately, the opportunity from the unrounded demand and
\* competition, so opportunity equals max(demand * 1.4 - competition, 0) of
\* the stored fields exactly in heuristic mode and to within 0.002 in
\* metrics-informed mode.
C9_ScoreRanges ==
    \A i \in 1..Len(results) :
       LET r == results[i]
           diff == r.opportunity * 1000 - Max(r.demand * 1400 - r.competition * 1000, 0)
       IN  /\ r.demand <= 3000
           /\ r.competition >= 500
           /\ r.opportunity >= 0
           /\ Abs(diff) < 2000
           /\ sc_fn = "score_keywords" => diff = 0

\* Both modes returned a score, one at the demand cap, one whose
\* opportunity was floored at 0, one with a positive opportunity.
C9_Witness ==
    /\ sc_pc = "done"
    /\ Len(results) = 2
    /\ \E i, j \in 1..Len(results) :
          /\ results[i].demand = 3000
          /\ results[i].opportunity > 0
          /\ results[j].opportunity = 0
          /\ results[j].demand * 1400 < results[j].competition * 1000

\* The keywords of a sequence of scores, with their multiplicity.
RECURSIVE KeywordBag(_)
KeywordBag(s) ==
    IF s = <<>> THEN <<>>
    ELSE LET rest == KeywordBag(Tail(s))
             k == Head(s)
             n == IF k \in DOMAIN rest THEN rest[k] ELSE 0
         IN  [x \in DOMAIN rest \cup {k} |-> IF x = k THEN n + 1 ELSE rest[x]]

\* C10: in both modes the returned list holds one KeywordScore per input
\* keyword and is in descending order of the pair (opportunity, demand).
C10_ScoresSortedDescending ==
    sc_pc = "done" =>
       /\ Len(results) = Len(sc_keywords)
       /\ KeywordBag([i \in 1..Len(results) |-> results[i].keyword]) = KeywordBag(sc_keywords)
       /\ \A i \in 1..(Len(results) - 1) :
             \/ results[i].opportunity > results[i + 1].opportunity
             \/ /\ results[i].opportunity = results[i + 1].opportunity
                /\ results[i].demand >= results[i + 1].demand

\* The sort moved the later keyword, of higher opportunity, to the front.
C10_Witness ==
    /\ sc_pc = "done"
    /\ Len(results) = 2
    /\ results[1].keyword = sc_keywords[2]
    /\ results[1].keyword # results[2].keyword
    /\ results[1].opportunity > results[2].opportunity

(***************************************************************************)
(* The scoring functions as whole calls.                                   *)
(***************************************************************************)
\* score_keywords(keywords, hit_counts)
score_keywords(kws, hc) ==
    SortScores([i \in 1..Len(kws) |-> HeuristicScore(kws[i], hc)])

\* score_keywords_with_metrics(keywords, hit_counts, metrics)
score_keywords_with_metrics(kws, hc, mt) ==
    SortScores([i \in 1..Len(kws) |-> MetricsScore(kws[i], hc, mt)])

\* C11: score_keywords_by_platform returns exactly the result of
\* score_keywords_with_metrics when the metrics map is supplied and
\* non-empty and exactly the result of score_keywords when it is None or
\* empty, whatever the platform argument is.
C11_PlatformDispatch ==
    (sc_entry = "score_keywords_by_platform" /\ sc_pc = "done") =>
       results = IF ~sc_none /\ sc_metrics # <<>>
                 THEN score_keywords_with_metrics(sc_keywords, hit_counts, sc_metrics)
                 ELSE score_keywords(sc_keywords, hit_counts)

\* A call with a non-default platform and a non-empty metrics map returned
\* scores that differ from the heuristic ones.
C11_Witness ==
    /\ sc_entry = "score_keywords_by_platform"
    /\ sc_pc = "done"
    /\ sc_platform = "tistory"
    /\ ~sc_none /\ sc_metrics # <<>>
    /\ results # <<>>
    /\ results # score_keywords(sc_keywords, hit_counts)

\* The record of a keyword is absent from the map (or stored as None), has
\* null volumes and null content totals, or is malformed: a volume field
\* holds a non-numeric string, on which the computation raises.
NoUsableMetrics(m) ==
    \/ m.t # "EnrichedMetrics"
    \/ /\ m.naver_monthly_pc = PyNone /\ m.naver_monthly_mobile = PyNone
       /\ m.naver_blog_total = PyNone /\ m.google_total = PyNone
    \/ m.naver_monthly_pc.t = "str"
    \/ m.naver_monthly_mobile.t = "str"

LogComp(total) ==
    Max(600000, Min(2300000, 700000 + Log10Micro(total + 1) \div 4))

\* The content totals of a record that are available (integers).
AvailableTotals(m) ==
    (IF m.naver_blog_total.t = "int" THEN <<m.naver_blog_total.v>> ELSE <<>>)
    \o (IF m.google_total.t = "int" THEN <<m.google_total.v>> ELSE <<>>)

\* The average of per-source values clamped to [0.5, 2.5] and rounded to 3
\* decimals, in thousandths.
AverageComp(cs) ==
    RoundMilli(Max(500000, Min(SumSeq(cs) \div Len(cs), 2500000)))

\* C13 (as stated): in metrics-informed scoring each available total gives
\* comp = clamp(0.7 + log10(total + 1) * 0.25, 0.6, 2.3), also for total 0;
\* the competition is the average of the available values clamped to
\* [0.5, 2.5], and the heuristic competition when no total is available
\* (records whose volume fields make the computation raise are left aside).
C13_LogCompForEveryTotal ==
    sc_fn = "score_keywords_with_metrics" =>
       \A j \in 1..Len(results) :
          LET r == results[j]
              m == MetricsGet(sc_metrics, r.keyword)
              ts == AvailableTotals(m)
              raises == m.naver_monthly_pc.t = "str" \/ m.naver_monthly_mobile.t = "str"
          IN  raises \/ r.competition =
                 IF ts # <<>>
                 THEN AverageComp([k \in 1..Len(ts) |-> LogComp(ts[k])])
                 ELSE RoundMilli(estimate_competition_score(r.keyword))

\* The per-source value with the special case of the source: 0.8 for a
\* total of 0 or less.
BranchComp(total) == IF total <= 0 THEN 800000 ELSE LogComp(total)

\* C13 (amended): each available total gives comp = 0.8 when the total is 0
\* or less and clamp(0.7 + log10(total + 1) * 0.25, 0.6, 2.3) when it is
\* positive; unless the volume fields make the computation raise, the
\* competition is the average of the available values clamped to
\* [0.5, 2.5]; with no available total, or when the computation raises, the
\* heuristic competition is kept.
C13_CompFromTotals ==
    sc_fn = "score_keywords_with_metrics" =>
       \A j \in 1..Len(results) :
          LET r == results[j]
              m == MetricsGet(sc_metrics, r.keyword)
              ts == AvailableTotals(m)
              raises == m.naver_monthly_pc.t = "str" \/ m.naver_monthly_mobile.t = "str"
          IN  r.competition =
                 IF ts # <<>> /\ ~raises
                 THEN AverageComp([k \in 1..Len(ts) |-> BranchComp(ts[k])])
                 ELSE RoundMilli(estimate_competition_score(r.keyword))

\* One call scored a keyword with blog total 0 (competition 0.8) and a
\* keyword with two totals whose values 1.95 and 2.3 average to 2.125.
C13_Witness ==
    /\ sc_fn = "score_keywords_with_metrics"
    /\ sc_pc = "done"
    /\ \E i, j \in 1..Len(results) :
          /\ MetricsGet(sc_metrics, results[i].keyword).naver_blog_total = PyInt(0)
          /\ MetricsGet(sc_metrics, results[i].keyword).google_total = PyNone
          /\ results[i].competition = 800
          /\ Len(AvailableTotals(MetricsGet(sc_metrics, results[j].keyword))) = 2
          /\ results[j].competition = 2125

(***************************************************************************)
(* unique_ordered on lists of strings, some of them equal, some differing  *)
(* only in letter case or in a trailing blank.                             *)
(***************************************************************************)
MaxItems == 4

ItemPool == {<<"a">>, <<"A">>, <<"a", " ">>, <<>>}

UoInit ==
    /\ uo_items \in SeqUpTo(ItemPool, MaxItems)
    /\ uo_out = <<>>
    /\ uo_prev = <<>>
    /\ uo_pc = "call"

\* out = unique_ordered(items)
UoCall ==
    /\ uo_pc = "call"
    /\ uo_out' = unique_ordered(uo_items)
    /\ uo_pc' = "once"
    /\ UNCHANGED <<uo_items, uo_prev, uoOthers>>

\* out = unique_ordered(out)
UoAgain ==
    /\ uo_pc = "once"
    /\ uo_prev' = uo_out
    /\ uo_out' = unique_ordered(uo_out)
    /\ uo_pc' = "twice"
    /\ UNCHANGED <<uo_items, uoOthers>>

UoNext ==
    \/ UoCall
    \/ UoAgain

InitUnique == UoInit /\ MonIdle /\ CiIdle /\ ScIdle /\ ExIdle /\ EnIdle /\ SgIdle /\ TrIdle /\ CsIdle /\ HjIdle /\ DbIdle

SpecUnique == InitUnique /\ [][UoNext]_vars

\* The place of the first occurrence of x in s.
FirstIndex(s, x) == CHOOSE i \in 1..Len(s) : s[i] = x /\ \A j \in 1..(i - 1) : s[j] # x

\* C14: unique_ordered(xs) contains each distinct string of xs exactly
\* once, in the order of first occurrence in xs, and applying
\* unique_ordered to its own result changes nothing.
C14_UniqueOrdered ==
    /\ uo_pc \in {"once", "twice"} =>
          /\ Range(uo_out) = Range(uo_items)
          /\ \A i, j \in 1..Len(uo_out) : i # j => uo_out[i] # uo_out[j]
          /\ \A i, j \in 1..Len(uo_out) :
                i < j => FirstIndex(uo_items, uo_out[i]) < FirstIndex(uo_items, uo_out[j])
    /\ uo_pc = "twice" => uo_out = uo_prev

\* A list with a repeated string between two others was reduced and the
\* second application returned the same list.
C14_Witness ==
    /\ uo_pc = "twice"
    /\ Len(uo_items) = 4
    /\ Len(uo_out) = 2
    /\ uo_items[1] = uo_items[3]
    /\ uo_items[2] # uo_items[1]
    /\ uo_out = <<uo_items[1], uo_items[2]>>

(***************************************************************************)
(* expand_with_suffixes and expand_with_profile as processes: one step per *)
(* seed of the loop, then the final unique_ordered.                        *)
(***************************************************************************)
MaxSeeds == 2

\* Seeds: clean, with a leading blank, with a doubled blank and a trailing
\* tab, and the empty string.
SeedPool ==
    {<<"je", "ju">>,
     <<" ", "je", "ju">>,
     <<"je", "ju", " ", " ", "mat", "jip", "\t">>,
     <<"seo", "ul">>,
     <<>>}

SuffixChoices ==
    {NoSuffixes,
     SuffixList(<<>>),
     SuffixList(<< <<"mat", "jip">>, <<" ", "ka", "pe", " ">>, <<"mat", "jip">> >>),
     SuffixList(<< <<>>, <<"ga", "gyeok">>, <<"mat", "jip", " ", "ga", "gyeok">> >>)}

ProfileChoices ==
    {<<"t", "r", "a", "v", "e", "l">>,
     <<"T", "r", "a", "v", "e", "l">>,
     <<"T", "R", "A", "V", "E", "L">>,
     <<"f", "o", "o", "d">>,
     <<"F", "o", "O", "D">>,
     <<>>,
     <<"t", "e", "c", "h">>,
     <<" ", "t", "r", "a", "v", "e", "l">>}

ExInit ==
    /\ ex_seeds \in SeqUpTo(SeedPool, MaxSeeds)
    /\ \/ /\ ex_fn = "expand_with_suffixes"
          /\ ex_suffixes \in SuffixChoices
          /\ ex_profile = <<>>
          /\ ex_pc = "loop"
       \/ /\ ex_fn = "expand_with_profile"
          /\ ex_suffixes = NoSuffixes
          /\ ex_profile \in ProfileChoices
          /\ ex_pc = "call"
    /\ ex_out = <<>>
    /\ ex_i = 1

\* expand_with_profile: the suffixes argument of the call of
\* expand_with_suffixes is PROFILE_SUFFIXES.get(profile.lower(), []).
ExProfile ==
    /\ ex_pc = "call"
    /\ ex_suffixes' = ProfileGet(ex_profile)
    /\ ex_pc' = "loop"
    /\ UNCHANGED <<ex_fn, ex_seeds, ex_profile, ex_out, ex_i, exOthers>>

\* out.extend(append_suffixes(s, suffixes=suffixes))
ExExtend ==
    /\ ex_pc = "loop"
    /\ ex_i <= Len(ex_seeds)
    /\ ex_out' = ex_out \o append_suffixes(ex_seeds[ex_i], ex_suffixes)
    /\ ex_i' = ex_i + 1
    /\ UNCHANGED <<ex_fn, ex_seeds, ex_suffixes, ex_profile, ex_pc, exOthers>>

\* return unique_ordered(out)
ExReturn ==
    /\ ex_pc = "loop"
    /\ ex_i > Len(ex_seeds)
    /\ ex_out' = unique_ordered(ex_out)
    /\ ex_pc' = "done"
    /\ UNCHANGED <<ex_fn, ex_seeds, ex_suffixes, ex_profile, ex_i, exOthers>>

ExNext ==
    \/ ExProfile
    \/ ExExtend
    \/ ExReturn

InitExpand == ExInit /\ MonIdle /\ CiIdle /\ ScIdle /\ UoIdle /\ EnIdle /\ SgIdle /\ TrIdle /\ CsIdle /\ HjIdle /\ DbIdle

SpecExpand == InitExpand /\ [][ExNext]_vars

\* s is a prefix of k.
IsPrefix(s, k) == Len(s) <= Len(k) /\ SubSeq(k, 1, Len(s)) = s

\* The suffix list a call works with: the default list when None is passed.
SuffixesUsed ==
    IF ex_suffixes.t = "None" THEN KOREAN_LONGTAIL_SUFFIXES ELSE ex_suffixes.v

C16_ProfileLookup ==
    (ex_fn = "expand_with_profile" /\ ex_pc = "done") =>
       LET known == {p \in DOMAIN PROFILE_SUFFIXES :
                        /\ Len(p) = Len(ex_profile)
                        /\ \A i \in 1..Len(p) : LowerChar(ex_profile[i]) = p[i]}
       IN  /\ \A p \in known :
                ex_out = expand_with_suffixes(ex_seeds, SuffixList(PROFILE_SUFFIXES[p]))
           /\ known = {} => ex_out = <<>>

\* "FoOD" gave the food expansion of two seeds.
C16_Witness ==
    /\ ex_fn = "expand_with_profile"
    /\ ex_pc = "done"
    /\ ex_profile = <<"F", "o", "O", "D">>
    /\ Len(ex_seeds) = 2
    /\ Len(ex_out) = 18
    /\ ex_out[1] = <<"seo", "ul", " ", "mat", "jip">>
    /\ ex_out[18] = <<"je", "ju", " ", "ju", "cha">>

(***************************************************************************)
(* enrich_keywords as a process: one step per keyword of the loop, then    *)
(* the return.  A dashboard builds the client map from the environment and *)
(* stops when it is empty; en_calls is the log of the lookups performed,   *)
(* in the order they were made, as pairs <<position of keyword, source>>.  *)
(***************************************************************************)
MaxEnrich == 3

EnrichKeywordPool == {<<"je", "ju">>, <<"seo", "ul">>, <<"bu", "san">>}

SourceNames == {"naver_openapi", "google_cse", "naver_ads"}

\* What the three services answer for one keyword.
ResponsePool ==
    <<[naver_openapi |-> BlogJson(PyInt(1200)),
       google_cse |-> CseJson(Digits(34000)),
       naver_ads |-> AdsJson(TRUE, PyInt(600), Digits(400), PyInt(320))],
      [naver_openapi |-> Raise,
       google_cse |-> CseJson(Digits(5)),
       naver_ads |-> AdsJson(TRUE, PyStr, PyInt(20), PyNone)],
      [naver_openapi |-> BlogJson(Digits(12)),
       google_cse |-> Raise,
       naver_ads |-> Raise],
      [naver_openapi |-> NotDict,
       google_cse |-> CseJson(PyStr),
       naver_ads |-> AdsJson(FALSE, PyNone, PyNone, PyNone)],
      [naver_openapi |-> BlogJson(PyInt(0)),
       google_cse |-> CseJson(PyInt(7)),
       naver_ads |-> NotDict]>>

\* Assignment number j gives keyword number i of the pool, in a fixed
\* order, the answers number (i + j) mod n.
ResponseMap(j) ==
    LET n == Len(ResponsePool)
        order == << <<"je", "ju">>, <<"seo", "ul">>, <<"bu", "san">> >>
    IN  [kw \in EnrichKeywordPool |->
            ResponsePool[(((CHOOSE i \in 1..Len(order) : order[i] = kw) + j) % n) + 1]]

ResponseChoices == {ResponseMap(j) : j \in 0..(Len(ResponsePool) - 1)}

\* limit: None (no cap), 0, caps below and above the list length, and a
\* negative number.
LimitChoices == {PyNone, PyInt(0), PyInt(1), PyInt(2), PyInt(5), PyInt(-1)}

\* int(enrich_limit) of the dashboards; the input widget has min_value=50.
DashboardLimit == 50

EnInit ==
    /\ en_keywords \in SeqUpTo(EnrichKeywordPool, MaxEnrich)
    /\ en_clients \in SUBSET SourceNames
    /\ en_resp \in ResponseChoices
    /\ \/ /\ en_caller = "enrich_keywords"
          /\ en_limit \in LimitChoices
          /\ en_pc = "loop"
       \/ /\ en_caller = "dashboard"
          /\ en_limit = PyInt(DashboardLimit)
          /\ en_pc = "guard"
    /\ en_out = <<>>
    /\ en_calls = <<>>
    /\ en_i = 1

\* enrichers = build_enrichers_from_env()
\* if not enrichers: st.error(...); st.stop()
EnGuard ==
    /\ en_pc = "guard"
    /\ en_pc' = IF en_clients = {} THEN "stopped" ELSE "loop"
    /\ UNCHANGED <<en_caller, en_keywords, en_clients, en_limit, en_resp,
                   en_out, en_calls, en_i, enOthers>>

\* One iteration of `for kw in keywords[:limit]`: every configured client
\* is called once; an exception leaving a client leaves enrich_keywords too.
EnEnrich ==
    /\ en_pc = "loop"
    /\ en_i <= SliceLen(en_keywords, EffectiveLimit(en_limit, en_keywords))
    /\ LET kw == en_keywords[en_i]
           r == en_resp[kw]
           m == EnrichOne(en_clients, r)
       IN  IF \E s \in en_clients : LookupEscapes(r[s])
           THEN /\ en_pc' = "raised"
                /\ UNCHANGED en_out
           ELSE /\ en_pc' = en_pc
                /\ en_out' = [k \in DOMAIN en_out \cup {kw} |->
                                 IF k = kw THEN m ELSE en_out[k]]
    /\ en_calls' = en_calls \o CallsFor(en_i, en_clients)
    /\ en_i' = en_i + 1
    /\ UNCHANGED <<en_caller, en_keywords, en_clients, en_limit, en_resp, enOthers>>

\* return out
EnReturn ==
    /\ en_pc = "loop"
    /\ en_i > SliceLen(en_keywords, EffectiveLimit(en_limit, en_keywords))
    /\ en_pc' = "done"
    /\ UNCHANGED <<en_caller, en_keywords, en_clients, en_limit, en_resp,
                   en_out, en_calls, en_i, enOthers>>

EnNext ==
    \/ EnGuard
    \/ EnEnrich
    \/ EnReturn

InitEnrich == EnInit /\ MonIdle /\ CiIdle /\ ScIdle /\ UoIdle /\ ExIdle /\ SgIdle /\ TrIdle /\ CsIdle /\ HjIdle /\ DbIdle

SpecEnrich == InitEnrich /\ [][EnNext]_vars

\* The number of keywords a cap lets through: all of them without a cap,
\* the first `limit` with a cap (none for a cap of 0 or less).
Capped ==
    IF en_limit.t = "None" THEN Len(en_keywords)
    ELSE Max(0, Min(en_limit.v, Len(en_keywords)))

\* C17: enrich_keywords returns a map whose keys are exactly the first
\* `limit` keywords of the input (all keywords when no cap is given), for
\* every cap value, and calls the clients for these keywords only.
C17_KeysAreFirstLimit ==
    (en_caller = "enrich_keywords" /\ en_pc = "done") =>
       /\ DOMAIN en_out = {en_keywords[i] : i \in 1..Capped}
       /\ Range(en_calls) = (1..Capped) \X en_clients

C19_NoSourceIsHardStop ==
    ~(/\ en_pc = "done"
      /\ en_clients = {}
      /\ en_out # <<>>)

(***************************************************************************)
(* bulk_suggest of a suggestion provider as a process: one step per seed   *)
(* (out.extend(self.suggest(s))), then the final unique_ordered.           *)
(***************************************************************************)
MaxSuggestSeeds == 3

SuggestSeedPool == {<<"je", "ju">>, <<"seo", "ul">>, <<"bu", "san">>}

\* Behaviours of the service for one seed.
ServicePool ==
    <<[fails |-> 0,
       json |-> [t |-> "suggestions",
                 v |-> <<StrEntry(<<"je", "ju", " ", "mat", "jip">>),
                         StrEntry(<<" ", "je", "ju", " ", " ", "ka", "pe">>),
                         NonStrEntry,
                         StrEntry(<<"je", "ju">>),
                         StrEntry(<<" ">>),
                         StrEntry(<<"je", "ju", " ", "mat", "jip">>)>>]],
      [fails |-> 3, json |-> [t |-> "suggestions", v |-> <<>>]],
      [fails |-> 2,
       json |-> [t |-> "suggestions",
                 v |-> <<StrEntry(<<"seo", "ul", " ", "ya", "gyeong">>),
                         StrEntry(<<"je", "ju", " ", "ka", "pe">>)>>]],
      [fails |-> 0, json |-> [t |-> "scalar_list", v |-> <<>>]],
      [fails |-> 1, json |-> [t |-> "wrong_type", v |-> <<>>]],
      [fails |-> 0, json |-> [t |-> "short", v |-> <<>>]],
      [fails |-> 0, json |-> [t |-> "null_list", v |-> <<>>]]>>

\* Assignment number j gives seed number i of the pool, in a fixed order,
\* the behaviour number (i + j) mod n.
ServiceMap(j) ==
    LET n == Len(ServicePool)
        order == << <<"je", "ju">>, <<"seo", "ul">>, <<"bu", "san">> >>
    IN  [sd \in SuggestSeedPool |->
            ServicePool[(((CHOOSE i \in 1..Len(order) : order[i] = sd) + j) % n) + 1]]

ServiceChoices == {ServiceMap(j) : j \in 0..(Len(ServicePool) - 1)}

SgInit ==
    /\ sg_provider \in {"naver", "google"}
    /\ sg_seeds \in SeqUpTo(SuggestSeedPool, MaxSuggestSeeds)
    /\ sg_resp \in ServiceChoices
    /\ sg_out = <<>>
    /\ sg_i = 1
    /\ sg_pc = "loop"

\* out.extend(self.suggest(s)): an exception leaving suggest leaves
\* bulk_suggest as well.
SgSuggest ==
    /\ sg_pc = "loop"
    /\ sg_i <= Len(sg_seeds)
    /\ LET seed == sg_seeds[sg_i]
           reply == SuggestOf(sg_provider, seed, get_json(sg_resp[seed]))
       IN  IF reply.raised
           THEN sg_pc' = "raised" /\ UNCHANGED sg_out
           ELSE sg_pc' = sg_pc /\ sg_out' = sg_out \o reply.v
    /\ sg_i' = sg_i + 1
    /\ UNCHANGED <<sg_provider, sg_seeds, sg_resp, sgOthers>>

\* return unique_ordered(out)
SgReturn ==
    /\ sg_pc = "loop"
    /\ sg_i > Len(sg_seeds)
    /\ sg_out' = unique_ordered(sg_out)
    /\ sg_pc' = "done"
    /\ UNCHANGED <<sg_provider, sg_seeds, sg_resp, sg_i, sgOthers>>

SgNext ==
    \/ SgSuggest
    \/ SgReturn

InitSuggest == SgInit /\ MonIdle /\ CiIdle /\ ScIdle /\ UoIdle /\ ExIdle /\ EnIdle /\ TrIdle /\ CsIdle /\ HjIdle /\ DbIdle

SpecSuggest == InitSuggest /\ [][SgNext]_vars

\* The seed's request succeeds within the retries and its JSON has the
\* expected shape.
GoodSeed(seed) ==
    /\ sg_resp[seed].fails <= MaxRetries
    /\ sg_resp[seed].json.t = "suggestions"

\* C20: a transport failure or malformed response never leaves suggest or
\* bulk_suggest (nor a metrics client) as an exception; it gives an empty
\* list for that seed, and the suggestions of the other seeds are still
\* collected.
C20_FailuresAbsorbed ==
    /\ sg_pc # "raised"
    /\ en_pc # "raised"
    /\ sg_pc = "done" =>
          \A i \in 1..Len(sg_seeds) :
             GoodSeed(sg_seeds[i]) =>
                \A k \in 1..Len(sg_resp[sg_seeds[i]].json.v) :
                   LET x == sg_resp[sg_seeds[i]].json.v[k] IN
                   (x.str /\ normalize_query(x.s) \notin {<<>>, sg_seeds[i]})
                      => normalize_query(x.s) \in Range(sg_out)

(***************************************************************************)
(* compute_trends as a process: the two differences, then the hot terms.   *)
(***************************************************************************)
MaxSnapshot == 2

SnapshotPool ==
    {<<"a">>, <<"a", "b">>, <<"A">>, <<"c">>,
     <<"je", "ju", " ", "ya", "gyeong">>,
     <<"seo", "ul", " ", "beu", "reon", "chi">>}

\* hot_terms: None, the empty list, a list with a repeated term and a term
\* that occurs in no keyword, and a list with a term of the default
\* vocabulary.
HotTermChoices ==
    {[t |-> "None", v |-> <<>>],
     [t |-> "list", v |-> <<>>],
     [t |-> "list", v |-> << <<"a">>, <<"b">>, <<"a">>, <<"c", "c">> >>],
     [t |-> "list", v |-> << <<"ju">>, <<"b">>, <<"a">> >>]}

TrInit ==
    /\ tr_prev \in SeqUpTo(SnapshotPool, MaxSnapshot)
    /\ tr_curr \in SeqUpTo(SnapshotPool, MaxSnapshot)
    /\ tr_terms \in HotTermChoices
    /\ tr_new = <<>>
    /\ tr_dropped = <<>>
    /\ tr_hot = <<>>
    /\ tr_pc = "diff"

\* new_items = sorted(curr_set - prev_set); dropped = sorted(prev_set - curr_set)
TrDiff ==
    /\ tr_pc = "diff"
    /\ tr_new' = SortedStrings(Range(tr_curr) \ Range(tr_prev))
    /\ tr_dropped' = SortedStrings(Range(tr_prev) \ Range(tr_curr))
    /\ tr_pc' = "hot"
    /\ UNCHANGED <<tr_prev, tr_curr, tr_terms, tr_hot, trOthers>>

\* terms = ...; counts = ...; hot_sorted = ...; return TrendDelta(...)
TrHot ==
    /\ tr_pc = "hot"
    /\ tr_hot' = HotSorted(TermsUsed(tr_terms), Range(tr_curr))
    /\ tr_pc' = "done"
    /\ UNCHANGED <<tr_prev, tr_curr, tr_terms, tr_new, tr_dropped, trOthers>>

TrNext ==
    \/ TrDiff
    \/ TrHot

InitTrends == TrInit /\ MonIdle /\ CiIdle /\ ScIdle /\ UoIdle /\ ExIdle /\ EnIdle /\ SgIdle /\ CsIdle /\ HjIdle /\ DbIdle

SpecTrends == InitTrends /\ [][TrNext]_vars

\* The list is strictly ascending (sorted, without duplicates).
StrictlyAscending(l) == \A i \in 1..(Len(l) - 1) : StrLess(l[i], l[i + 1])

\* C21: new_suggestions is the sorted, duplicate-free list of curr minus
\* prev and dropped_suggestions that of prev minus curr; the two lists are
\* disjoint, and both are empty when prev and curr hold the same strings.
C21_TrendDifferences ==
    tr_pc \in {"hot", "done"} =>
       /\ Range(tr_new) = Range(tr_curr) \ Range(tr_prev)
       /\ Range(tr_dropped) = Range(tr_prev) \ Range(tr_curr)
       /\ StrictlyAscending(tr_new)
       /\ StrictlyAscending(tr_dropped)
       /\ Range(tr_new) \cap Range(tr_dropped) = {}
       /\ tr_prev = tr_curr => (tr_new = <<>> /\ tr_dropped = <<>>)
       /\ (tr_prev = << <<"a">>, <<"a", "b">> >> /\ tr_curr = << <<"a", "b">>, <<"c">> >>)
             => (tr_new = << <<"c">> >> /\ tr_dropped = << <<"a">> >>)

\* Two new strings were put in order ("A" before "a") and one was dropped.
C21_Witness ==
    /\ tr_pc = "done"
    /\ tr_curr = << <<"a">>, <<"A">> >>
    /\ tr_prev = << <<"c">> >>
    /\ tr_new = << <<"A">>, <<"a">> >>
    /\ tr_dropped = << <<"c">> >>

\* The vocabulary the claim has in use: the default one only when none is
\* supplied.
ClaimedVocabulary == IF tr_terms.t = "None" THEN default_hot_terms ELSE tr_terms.v

\* The number of current-snapshot keywords that contain the term.
KeywordsContaining(t) == Cardinality({s \in Range(tr_curr) : Contains(s, t)})

\* C22: hot_terms holds exactly the terms of the vocabulary in use (the
\* default one only when none is supplied) that occur in at least one
\* current keyword, each once with the number of current keywords that
\* contain it, in descending order of the counts.
C22_HotTermCounts ==
    tr_pc = "done" =>
       /\ {tr_hot[i][1] : i \in 1..Len(tr_hot)} =
             {t \in Range(ClaimedVocabulary) : KeywordsContaining(t) > 0}
       /\ \A i \in 1..Len(tr_hot) : tr_hot[i][2] = KeywordsContaining(tr_hot[i][1])
       /\ \A i, j \in 1..Len(tr_hot) : i # j => tr_hot[i][1] # tr_hot[j][1]
       /\ \A i \in 1..(Len(tr_hot) - 1) : tr_hot[i][2] >= tr_hot[i + 1][2]

\* C23: the list returned by score_keywords and score_keywords_with_metrics
\* contains each keyword string at most once, also for an input list in
\* which a keyword is repeated.
C23_OutputKeywordsUnique ==
    sc_pc = "done" =>
       \A i, j \in 1..Len(results) : i # j => results[i].keyword # results[j].keyword

\* The number of loop iterations enrich_keywords has completed, each for the
\* keyword at one position of the input.
Enriched == en_i - 1

\* C24: enrich_keywords calls each configured client exactly once for the
\* keyword at each enriched position, one position after the other in input
\* order (no call for position i follows a call for position i + 1), and
\* the number of client calls is the number of enriched keywords times the
\* number of configured sources.
C24_OneCallPerKeywordAndSource ==
    en_pc \in {"loop", "done"} =>
       /\ Len(en_calls) = Enriched * Cardinality(en_clients)
       /\ \A i \in 1..Enriched : \A s \in en_clients :
             Cardinality({k \in 1..Len(en_calls) : en_calls[k] = <<i, s>>}) = 1
       /\ \A k \in 1..Len(en_calls) :
             /\ en_calls[k][1] \in 1..Enriched
             /\ en_calls[k][2] \in en_clients
       /\ \A k \in 1..(Len(en_calls) - 1) : en_calls[k][1] <= en_calls[k + 1][1]
       /\ en_pc = "done" =>
             Enriched = SliceLen(en_keywords, EffectiveLimit(en_limit, en_keywords))

\* Three keywords, one of them repeated, were enriched from two sources: six
\* calls, position by position.
C24_Witness ==
    /\ en_pc = "done"
    /\ en_keywords = << <<"je", "ju">>, <<"seo", "ul">>, <<"je", "ju">> >>
    /\ en_clients = {"google_cse", "naver_ads"}
    /\ en_calls = << <<1, "google_cse">>, <<1, "naver_ads">>,
                     <<2, "google_cse">>, <<2, "naver_ads">>,
                     <<3, "google_cse">>, <<3, "naver_ads">> >>

(***************************************************************************)
(* collect_suggestions_cached / collect_suggestions as a process: one step *)
(* per bulk call of a provider, the test of depth between the two rounds,  *)
(* and the return.  cs_log lists what every bulk call returned.            *)
(***************************************************************************)
MaxCollectSeeds == 2

CollectSeedPool == {<<"je", "ju">>, <<"seo", "ul">>}

\* provider_names: the dashboards pass the selection of the multiselect;
\* other callers may pass any list of strings.
ProviderNameChoices ==
    {<<>>,
     <<NameNaver>>,
     <<NameGoogle>>,
     <<NameNaver, NameGoogle>>,
     <<<<" ", "g", "O", "O", "g", "L", "E", " ">>, <<"n", "a", "V", "E", "R">>, NameNaver>>,
     <<<<"d", "a", "u", "m">>>>}

\* depth: the slider gives 1 or 2; a larger number behaves as 2.
DepthChoices == {1, 2, 3}

\* Behaviours of a suggestion service for one request: two lists that
\* overlap, and a request that fails on every attempt.
CollectAnswers ==
    {[fails |-> 0,
      json |-> [t |-> "suggestions",
                v |-> <<StrEntry(<<"je", "ju", " ", "mat", "jip">>),
                        StrEntry(<<"je", "ju", " ", "ka", "pe">>),
                        StrEntry(<<"je", "ju">>)>>]],
     [fails |-> 1,
      json |-> [t |-> "suggestions",
                v |-> <<StrEntry(<<" ", "je", "ju", " ", " ", "ka", "pe">>),
                        StrEntry(<<"seo", "ul", " ", "ya", "gyeong">>),
                        StrEntry(<<"je", "ju", " ", "ka", "pe">>)>>]],
     [fails |-> 3, json |-> [t |-> "suggestions", v |-> <<>>]]}

CsInit ==
    /\ cs_seeds \in SeqUpTo(CollectSeedPool, MaxCollectSeeds)
    /\ cs_names \in ProviderNameChoices
    /\ cs_depth \in DepthChoices
    /\ cs_service \in [{"naver", "google"} -> [{"seed", "longtail"} -> CollectAnswers]]
    /\ cs_queries = cs_seeds
    /\ cs_all = <<>>
    /\ cs_hits = <<>>
    /\ cs_log = <<>>
    /\ cs_round = 1
    /\ cs_p = 1
    /\ cs_out = <<>>
    /\ cs_pc = "round"

\* One iteration of `for p in providers`: _accumulate(p.bulk_suggest(...));
\* an exception leaving bulk_suggest leaves the collection too.
CsBulk ==
    /\ cs_pc = "round"
    /\ cs_p <= Len(Providers(cs_names))
    /\ LET p == Providers(cs_names)[cs_p]
           reply == bulk_suggest(p, cs_queries, cs_service, cs_seeds)
           acc == Accumulate(cs_all, cs_hits, reply.v)
       IN  IF reply.raised
           THEN /\ cs_pc' = "raised"
                /\ UNCHANGED <<cs_all, cs_hits, cs_log>>
           ELSE /\ cs_pc' = cs_pc
                /\ cs_all' = acc.all
                /\ cs_hits' = acc.hits
                /\ cs_log' = Append(cs_log, reply.v)
    /\ cs_p' = cs_p + 1
    /\ UNCHANGED <<cs_seeds, cs_names, cs_depth, cs_service, cs_queries,
                   cs_round, cs_out, csOthers>>

\* if depth >= 2: suffix_expanded = expand_with_suffixes(seeds)
CsExpand ==
    /\ cs_pc = "round"
    /\ cs_p > Len(Providers(cs_names))
    /\ cs_round = 1
    /\ cs_depth >= 2
    /\ cs_queries' = expand_with_suffixes(cs_seeds, NoSuffixes)
    /\ cs_round' = 2
    /\ cs_p' = 1
    /\ UNCHANGED <<cs_seeds, cs_names, cs_depth, cs_service, cs_all, cs_hits,
                   cs_log, cs_out, cs_pc, csOthers>>

\* return unique_ordered(all_candidates), hit_counts
CsReturn ==
    /\ cs_pc = "round"
    /\ cs_p > Len(Providers(cs_names))
    /\ cs_round = 2 \/ cs_depth < 2
    /\ cs_out' = unique_ordered(cs_all)
    /\ cs_pc' = "done"
    /\ UNCHANGED <<cs_seeds, cs_names, cs_depth, cs_service, cs_queries, cs_all,
                   cs_hits, cs_log, cs_round, cs_p, csOthers>>

CsNext ==
    \/ CsBulk
    \/ CsExpand
    \/ CsReturn

InitCollect == CsInit /\ MonIdle /\ CiIdle /\ ScIdle /\ UoIdle /\ ExIdle /\ EnIdle /\ SgIdle /\ TrIdle /\ HjIdle /\ DbIdle

SpecCollect == InitCollect /\ [][CsNext]_vars

\* The number of selected providers and of rounds, as the claim counts them.
SelectedProviders ==
    Cardinality({NameNaver, NameGoogle}
                   \cap {Lower(Strip(cs_names[k])) : k \in 1..Len(cs_names)})

Rounds == IF cs_depth >= 2 THEN 2 ELSE 1

\* C25: after the collection the returned candidate list has no duplicates,
\* its set of keywords is the key set of hit_counts, there was one bulk call
\* per selected provider per round, and hit_counts[k] is the number of bulk
\* calls whose result contained k, between 1 and providers x rounds.
C25_HitCountsCountBulkCalls ==
    cs_pc = "done" =>
       /\ \A i, j \in 1..Len(cs_out) : i # j => cs_out[i] # cs_out[j]
       /\ Range(cs_out) = DOMAIN cs_hits
       /\ Len(cs_log) = SelectedProviders * Rounds
       /\ \A k \in DOMAIN cs_hits :
             /\ cs_hits[k] = Cardinality({c \in 1..Len(cs_log) : k \in Range(cs_log[c])})
             /\ 1 <= cs_hits[k]
             /\ cs_hits[k] <= SelectedProviders * Rounds

\* Both providers, two rounds: one keyword was surfaced by all four bulk
\* calls and another by one only.
C25_Witness ==
    /\ cs_pc = "done"
    /\ Len(cs_log) = 4
    /\ Len(cs_seeds) = 2
    /\ \E k1, k2 \in DOMAIN cs_hits : cs_hits[k1] = 4 /\ cs_hits[k2] = 1

(***************************************************************************)
(* HttpClient.get_json as a process: one step per request attempt, one per *)
(* sleep after a failed attempt, and the statement after the loop.         *)
(* hj_outcomes[k] is what attempt k does: "ok" (a JSON body is returned),  *)
(* or an exception from session.get ("transport"), from raise_for_status   *)
(* ("status") or from r.json() ("body").                                   *)
(***************************************************************************)
MaxRetriesBound == 3

AttemptOutcomes == {"ok", "transport", "status", "body"}

HjInit ==
    /\ hj_max_retries \in -1..MaxRetriesBound
    /\ hj_outcomes \in [1..(MaxRetriesBound + 1) -> AttemptOutcomes]
    /\ hj_attempts = 0
    /\ hj_last = 0
    /\ hj_result = [t |-> "none", v |-> 0]
    /\ hj_pc = "attempt"

\* One pass through the try block: return r.json(), or last = e.
HjAttempt ==
    /\ hj_pc = "attempt"
    /\ hj_attempts < AttemptLimit(hj_max_retries)
    /\ hj_attempts' = hj_attempts + 1
    /\ IF hj_outcomes[hj_attempts + 1] = "ok"
       THEN /\ hj_result' = [t |-> "json", v |-> hj_attempts + 1]
            /\ hj_pc' = "returned"
            /\ UNCHANGED hj_last
       ELSE /\ hj_last' = LastAfter(hj_last, hj_attempts + 1)
            /\ hj_pc' = "sleep"
            /\ UNCHANGED hj_result
    /\ UNCHANGED <<hj_max_retries, hj_outcomes, hjOthers>>

\* self._sleep(): time.sleep(random.uniform(min_delay, max_delay))
HjSleep ==
    /\ hj_pc = "sleep"
    /\ hj_pc' = "attempt"
    /\ UNCHANGED <<hj_max_retries, hj_outcomes, hj_attempts, hj_last, hj_result,
                   hjOthers>>

\* if last: raise last -- and the implicit return None otherwise.
HjAfterLoop ==
    /\ hj_pc = "attempt"
    /\ hj_attempts >= AttemptLimit(hj_max_retries)
    /\ IF hj_last # 0
       THEN hj_result' = [t |-> "raise", v |-> hj_last] /\ hj_pc' = "raised"
       ELSE hj_result' = [t |-> "None", v |-> 0] /\ hj_pc' = "returned"
    /\ UNCHANGED <<hj_max_retries, hj_outcomes, hj_attempts, hj_last, hjOthers>>

HjNext ==
    \/ HjAttempt
    \/ HjSleep
    \/ HjAfterLoop

InitHttp == HjInit /\ MonIdle /\ CiIdle /\ ScIdle /\ UoIdle /\ ExIdle /\ EnIdle /\ SgIdle /\ TrIdle /\ CsIdle /\ DbIdle

SpecHttp == InitHttp /\ [][HjNext]_vars

\* The thread running get_json keeps running: session.get returns or raises
\* within its timeout and the sleep is finite.
SpecHttpFair == SpecHttp /\ WF_vars(HjNext)

HjTerminated == hj_pc \in {"returned", "raised"}

\* Every attempt the loop may make fails.
AllAttemptsFail ==
    \A k \in 1..(hj_max_retries + 1) : hj_outcomes[k] # "ok"

HjSafe ==
    hj_max_retries >= 0 =>
       /\ hj_attempts <= hj_max_retries + 1
       /\ hj_pc = "returned" =>
             /\ hj_result = [t |-> "json", v |-> hj_attempts]
             /\ hj_outcomes[hj_attempts] = "ok"
             /\ \A k \in 1..(hj_attempts - 1) : hj_outcomes[k] # "ok"
       /\ hj_pc = "raised" =>
             /\ AllAttemptsFail
             /\ hj_attempts = hj_max_retries + 1
             /\ hj_result = [t |-> "raise", v |-> hj_max_retries + 1]
       /\ (HjTerminated /\ AllAttemptsFail) => hj_pc = "raised"

\* C26: for every max_retries >= 0, get_json makes at most max_retries + 1
\* attempts, returns the JSON of the first successful attempt without a
\* further attempt, raises the exception of the last attempt when all
\* max_retries + 1 attempts fail and never returns a value then; and it
\* always terminates.
C26_BoundedRetries == []HjSafe /\ <>HjTerminated

\* Two failed attempts, then the third succeeded and its JSON was returned
\* although a fourth attempt was allowed.
C26_Witness ==
    /\ hj_pc = "returned"
    /\ hj_max_retries = 3
    /\ hj_attempts = 3
    /\ hj_outcomes[1] = "transport"
    /\ hj_outcomes[2] = "status"
    /\ hj_result = [t |-> "json", v |-> 3]

\* The parameters are all non-negative.
NonNegativeParams(p) ==
    /\ p.capture_pct >= 0
    /\ p.pv_per_visit_x10 >= 0
    /\ p.ecpm >= 0
    /\ p.aff_cvr_pct_x10 >= 0
    /\ p.aff_commission >= 0

\* C27: for non-negative parameters every row has est_display_rev +
\* est_aff_rev <= est_total_rev <= est_display_rev + est_aff_rev + 1 and
\* est_visits <= monthly_search.
C27_RowInequalities ==
    NonNegativeParams(params) =>
       \A i \in 1..Len(rows) :
          /\ rows[i].est_display_rev + rows[i].est_aff_rev <= rows[i].est_total_rev
          /\ rows[i].est_total_rev <= rows[i].est_display_rev + rows[i].est_aff_rev + 1
          /\ rows[i].est_visits <= rows[i].monthly_search

\* A returned row whose total exceeds the sum of its two parts by one, next
\* to a row whose total is the sum.
C27_Witness ==
    /\ mon_pc = "done"
    /\ NonNegativeParams(params)
    /\ \E i, j \in 1..Len(rows) :
          /\ rows[i].est_total_rev = rows[i].est_display_rev + rows[i].est_aff_rev + 1
          /\ rows[i].est_visits < rows[i].monthly_search
          /\ rows[j].est_total_rev = rows[j].est_display_rev + rows[j].est_aff_rev
          /\ rows[j].est_total_rev > 0

\* Monthly search volumes the demand is compared at.
PositiveVolumes == {1, 5, 9, 30, 1000, 99999, 1000000}

\* A record with the monthly volume v, all on the desktop field.
VolumeRecord(v) == EnrichedMetrics(PyInt(v), PyNone, PyNone, PyNone, PyNone)

\* The demand score score_keywords_with_metrics reports for the keyword
\* with the given hit count and monthly volume.
DemandAt(kw, hits, v) == RoundMilli(MetricsDemand(kw, hits, VolumeRecord(v)))

\* The entries of results that score_keywords_with_metrics computed.
MetricsEntries ==
    IF sc_fn = "score_keywords_with_metrics" THEN 1..Len(results) ELSE {}

\* C28 as stated: for the keyword and hit count of every entry, the demand
\* is non-decreasing in the monthly volume over all volumes >= 0, the step
\* from volume 0 to volume 1 included.
C28_DemandMonotoneFromZero ==
    \A i \in MetricsEntries :
       \A v, w \in PositiveVolumes \cup {0} :
          v <= w => DemandAt(results[i].keyword, results[i].provider_hits, v)
                       <= DemandAt(results[i].keyword, results[i].provider_hits, w)

\* C28 amended: the demand is non-decreasing in the monthly volume over the
\* volumes >= 1, where it is log-based; at volume 0 or unknown it is the
\* heuristic demand.
C28_DemandMonotonePositive ==
    \A i \in MetricsEntries :
       LET kw == results[i].keyword
           h == results[i].provider_hits
       IN  /\ \A v, w \in PositiveVolumes :
                 v <= w => DemandAt(kw, h, v) <= DemandAt(kw, h, w)
           /\ DemandAt(kw, h, 0) = RoundMilli(estimate_demand_score(kw, h))
           /\ RoundMilli(MetricsDemand(kw, h, NoMetrics))
                 = RoundMilli(estimate_demand_score(kw, h))

\* A three-token keyword with 3 hits and the monthly volume 1 was scored:
\* its demand 0.931 is below the heuristic demand 1.3 it has at volume 0.
C28_Witness ==
    /\ sc_pc = "done"
    /\ sc_fn = "score_keywords_with_metrics"
    /\ \E i \in 1..Len(results) :
          LET kw == results[i].keyword IN
          /\ kw = <<"a", " ", "b", " ", "c">>
          /\ kw \in DOMAIN sc_metrics
          /\ sc_metrics[kw].naver_monthly_pc = PyInt(1)
          /\ results[i].provider_hits = 3
          /\ results[i].demand = 931
          /\ DemandAt(kw, 3, 0) = 1300

\* The demand the running scoring function reports for kw when hit_counts
\* says that exactly one provider call surfaced it.
DemandWithOneHit(kw) ==
    IF sc_fn = "score_keywords_with_metrics"
    THEN RoundMilli(MetricsDemand(kw, 1, MetricsGet(sc_metrics, kw)))
    ELSE RoundMilli(estimate_demand_score(kw, 1))

\* C29: in both scoring modes a keyword without an entry in hit_counts gets
\* provider_hits = 1 and the demand of a keyword surfaced by exactly one
\* provider call; provider_hits is 0 only when hit_counts maps the keyword
\* to 0.
C29_MissingHitsCountAsOne ==
    \A i \in 1..Len(results) :
       LET kw == results[i].keyword IN
       /\ kw \notin DOMAIN hit_counts =>
             /\ results[i].provider_hits = 1
             /\ results[i].demand = DemandWithOneHit(kw)
       /\ results[i].provider_hits = 0 =>
             (kw \in DOMAIN hit_counts /\ hit_counts[kw] = 0)

\* One call scored a keyword that hit_counts does not hold (1 hit) and a
\* keyword that hit_counts maps to 0 (0 hits).
C29_Witness ==
    /\ sc_pc = "done"
    /\ \E i, j \in 1..Len(results) :
          /\ results[i].keyword \notin DOMAIN hit_counts
          /\ results[i].provider_hits = 1
          /\ results[i].demand = 1100
          /\ results[j].keyword \in DOMAIN hit_counts
          /\ hit_counts[results[j].keyword] = 0
          /\ results[j].provider_hits = 0

(***************************************************************************)
(* The platform dashboard in one browser session.  Every interaction       *)
(* reruns main() from the top; st.session_state (db_has_nonce, db_nonce)   *)
(* lasts over the reruns.  A button returns True only in the rerun its own *)
(* click triggered.  db_log lists the refresh clicks and the nonce of      *)
(* every collect_suggestions_cached call, in order.                        *)
(***************************************************************************)
MaxClicks == 5

\* The seed text area: its default text, or emptied by the user.
SeedTexts == {<<>>, << <<"je", "ju">> >>}

RefreshClick == [e |-> "refresh", nonce |-> 0]
CollectCall(n) == [e |-> "call", nonce |-> n]

\* main() from `if not run` on, for the values the two buttons returned:
\* the session state and the log after the run.
MainRun(refresh, run, seeds, has_nonce, nonce, log) ==
    IF ~run \/ seeds = <<>>
    THEN [has_nonce |-> has_nonce, nonce |-> nonce, log |-> log]
    ELSE LET n0 == IF has_nonce THEN nonce ELSE 0
             n1 == IF refresh THEN n0 + 1 ELSE n0
         IN  [has_nonce |-> TRUE, nonce |-> n1, log |-> Append(log, CollectCall(n1))]

DbInit ==
    /\ db_has_nonce = FALSE
    /\ db_nonce = 0
    /\ db_seeds \in SeedTexts
    /\ db_log = <<>>
    /\ db_clicks = 0
    /\ db_pc = "shown"

\* A click on the refresh button: the rerun has refresh = True, run = False.
DbClickRefresh ==
    /\ db_pc = "shown"
    /\ db_clicks < MaxClicks
    /\ LET after == MainRun(TRUE, FALSE, db_seeds, db_has_nonce, db_nonce,
                            Append(db_log, RefreshClick))
       IN  /\ db_has_nonce' = after.has_nonce
           /\ db_nonce' = after.nonce
           /\ db_log' = after.log
    /\ db_clicks' = db_clicks + 1
    /\ UNCHANGED <<db_seeds, db_pc, dbOthers>>

\* A click on the run button: the rerun has refresh = False, run = True.
DbClickRun ==
    /\ db_pc = "shown"
    /\ db_clicks < MaxClicks
    /\ LET after == MainRun(FALSE, TRUE, db_seeds, db_has_nonce, db_nonce, db_log)
       IN  /\ db_has_nonce' = after.has_nonce
           /\ db_nonce' = after.nonce
           /\ db_log' = after.log
    /\ db_clicks' = db_clicks + 1
    /\ UNCHANGED <<db_seeds, db_pc, dbOthers>>

\* The seed text is edited: the rerun has both buttons False.
DbEditSeeds ==
    /\ db_pc = "shown"
    /\ db_clicks < MaxClicks
    /\ \E t \in SeedTexts \ {db_seeds} :
          /\ db_seeds' = t
          /\ LET after == MainRun(FALSE, FALSE, t, db_has_nonce, db_nonce, db_log)
             IN  /\ db_has_nonce' = after.has_nonce
                 /\ db_nonce' = after.nonce
                 /\ db_log' = after.log
    /\ db_clicks' = db_clicks + 1
    /\ UNCHANGED <<db_pc, dbOthers>>

DbNext ==
    \/ DbClickRefresh
    \/ DbClickRun
    \/ DbEditSeeds

InitDashboard == DbInit /\ MonIdle /\ CiIdle /\ ScIdle /\ UoIdle /\ ExIdle /\ EnIdle /\ SgIdle /\ TrIdle /\ CsIdle /\ HjIdle

SpecDashboard == InitDashboard /\ [][DbNext]_vars

\* The positions of the collection calls in the log.
CallsAt == {k \in 1..Len(db_log) : db_log[k].e = "call"}

\* C30: for every refresh click that has a collection call before it and
\* one after it, the first call after the click uses a nonce different from
\* the nonce of the last call before the click.
C30_RefreshChangesNonce ==
    \A r \in 1..Len(db_log) :
       db_log[r].e = "refresh" =>
          \A a, b \in CallsAt :
             (/\ a < r
              /\ r < b
              /\ \A k \in CallsAt : ~(a < k /\ k < r) /\ ~(r < k /\ k < b))
                => db_log[a].nonce # db_log[b].nonce

====
